---------------------------- MODULE Spec2Model ----------------------------
(***************************************************************************)
(* HandlerManager (ui/handler_manager, src/unnamed/part_000) with the      *)
(* recognizers whose classes are in the repository sources:                *)
(*   MapEventHandler, BlockableMapEventHandler (handler/map_event.js)      *)
(*   MousePanHandler, MouseRotateHandler, MousePitchHandler (mouse.js)     *)
(* plus opaque recognizers "A" and "B" registered through add(), which     *)
(* obey only the Handler interface (part_000 lines 37-55).                 *)
(*                                                                         *)
(* Units: bearing and pitch are kept in tenths of a degree so that the     *)
(* factors -0.8 and 0.5 of mouse.js stay integral.                         *)
(* External collaborators (camera easing, inertia physics, projection)    *)
(* are inputs or log entries; see the comments at each use.                *)
(***************************************************************************)
EXTENDS Integers, Sequences, FiniteSets, TLC

VARIABLES
    handlers,                \* this._handlers: Seq of [name, kind, allowed]
    handlersById,            \* this._handlersById: the registered names
    hs,                      \* the recognizers' own fields, by name
    previousActiveHandlers,  \* this.previousActiveHandlers (names)
    changes,                 \* this._changes: Seq of [r, eip]
    eventsInProgress,        \* this.eventsInProgress: axis -> name or NoName
    frameId,                 \* this._frameId !== undefined
    pendingFrames,           \* callbacks handed to map._requestRenderFrame, not yet run
    updatingCamera,          \* this._updatingCamera
    tr,                      \* map.transform
    op,                      \* history: the last operation and its inputs
    pass,                    \* history: what the last dispatch pass did
    log,                     \* history: notifications published by the last operation
    counts                   \* history: notifications published so far, by type

vars == <<handlers, handlersById, hs, previousActiveHandlers, changes,
          eventsInProgress, frameId, pendingFrames, updatingCamera, tr,
          op, pass, log, counts>>

---------------------------------------------------------------------------
(* Bounds of the model *)

MaxCoord == 1        \* the pointer visits the points (c, c), c in 0..MaxCoord
MaxChanges == 2      \* changes queued between two frames
MaxPending == 2      \* render-frame callbacks counted (saturating)
MaxMoves == 3        \* move events of the pan gesture of SpecPan
MaxReach == 3        \* the pointer of SpecTol visits (x, 0), x in 0..MaxReach
MaxTolMoves == 2     \* move events after the press of SpecTol
MaxClock == 200      \* last timeStamp of a touch event of SpecAlone
MaxLiveOps == 4      \* inputs, disable() and stop() calls of a session of SpecLive
TrMod == 2           \* transform components wrap modulo TrMod

(* Program constants *)

LEFT_BUTTON == 0
RIGHT_BUTTON == 2
ClickTolerance == 1  \* options.clickTolerance || 1

---------------------------------------------------------------------------
(* Values *)

NoName == ""
Coord == 0..MaxCoord
Points == {<<c, c>> : c \in Coord}
NoPoint == <<-1, -1>>
NoButton == -1
Buttons == {LEFT_BUTTON, RIGHT_BUTTON}

Axes == <<"zoom", "drag", "pitch", "rotate">>
AxisSet == {"zoom", "drag", "pitch", "rotate"}

Point_sub(p, q) == <<p[1] - q[1], p[2] - q[2]>>
Point_add(p, q) == <<p[1] + q[1], p[2] + q[2]>>
Dist2(p, q) == (p[1] - q[1]) * (p[1] - q[1]) + (p[2] - q[2]) * (p[2] - q[2])
Mag2(p) == p[1] * p[1] + p[2] * p[2]

\* A HandlerResult: `fields` are the properties that are present.
\* around, pinchAround, easing, noInertia and delayEndEvents only feed the
\* camera's projection and the inertia tracker and are not carried.
EmptyResult ==
    [fields |-> {}, panDelta |-> <<0, 0>>, zoomDelta |-> 0,
     bearingDelta |-> 0, pitchDelta |-> 0, duration |-> 0,
     needsRenderFrame |-> FALSE]

NoEip == [a \in AxisSet |-> NoName]

\* What a callback hands back: the recognizer's new fields, whether it
\* returned an object, that object, and the map notifications it fired.
Ret(h, data, r, fired) == [h |-> h, data |-> data, r |-> r, fired |-> fired]

\* The fields of every recognizer, in one record shape.
IdleHandler ==
    [enabled |-> FALSE, active |-> FALSE, notMoved |-> TRUE,
     lastPoint |-> NoPoint, eventButton |-> NoButton,
     mouseDownPos |-> NoPoint,
     delayContextMenu |-> FALSE, contextMenuEvent |-> FALSE,
     clickTolerance |-> ClickTolerance]

---------------------------------------------------------------------------
(* mouse.js *)

\* A reset() that forgets the press but leaves _active as it was.
MouseHandler_reset_keepsActive(h) ==
    [h EXCEPT !.notMoved = TRUE, !.lastPoint = NoPoint, !.eventButton = NoButton]

MouseHandler_reset(h) ==
    [h EXCEPT !.active = FALSE, !.notMoved = TRUE,
              !.lastPoint = NoPoint, !.eventButton = NoButton]

correctButton(kind, e) ==
    IF kind = "mousePan"
    THEN e.button = LEFT_BUTTON /\ ~e.ctrlKey
    ELSE (e.button = LEFT_BUTTON /\ e.ctrlKey) \/ e.button = RIGHT_BUTTON

MouseHandler_mousedown(kind, h, e) ==
    IF h.lastPoint # NoPoint THEN h
    ELSE IF ~correctButton(kind, e) THEN h
    ELSE [h EXCEPT !.lastPoint = e.point, !.eventButton = e.button]

\* A pan press that only arms the recognizer, as the base class does.
MousePanHandler_mousedown_armsOnly(h, e) ==
    MouseHandler_mousedown("mousePan", h, e)

MousePanHandler_mousedown(h, e) ==
    LET h1 == MouseHandler_mousedown("mousePan", h, e)
    IN  IF h1.lastPoint # NoPoint THEN [h1 EXCEPT !.active = TRUE] ELSE h1

\* _move of the three subclasses; bearing and pitch in tenths of a degree.
move(kind, h, lastPoint, point) ==
    CASE kind = "mousePan" ->
           Ret(h, TRUE,
               [EmptyResult EXCEPT !.fields = {"panDelta"},
                                   !.panDelta = Point_sub(point, lastPoint)], <<>>)
      [] kind = "mouseRotate" ->
           Ret([h EXCEPT !.active = TRUE], TRUE,
               [EmptyResult EXCEPT !.fields = {"bearingDelta"},
                                   !.bearingDelta = (lastPoint[1] - point[1]) * (-8)],
               <<>>)
      [] OTHER ->
           Ret([h EXCEPT !.active = TRUE], TRUE,
               [EmptyResult EXCEPT !.fields = {"pitchDelta"},
                                   !.pitchDelta = (lastPoint[2] - point[2]) * 5],
               <<>>)

\* A mousemove that remembers the point of a move it suppresses.
MouseHandler_mousemove_tracksSuppressed(kind, h, e) ==
    LET lastPoint == h.lastPoint
    IN  IF lastPoint = NoPoint THEN Ret(h, FALSE, EmptyResult, <<>>)
        ELSE IF h.notMoved
                /\ Dist2(e.point, lastPoint) < h.clickTolerance * h.clickTolerance
        THEN Ret([h EXCEPT !.lastPoint = e.point], FALSE, EmptyResult, <<>>)
        ELSE move(kind, [h EXCEPT !.notMoved = FALSE, !.lastPoint = e.point],
                  lastPoint, e.point)

MouseHandler_mousemove(kind, h, e) ==
    LET lastPoint == h.lastPoint
    IN  IF lastPoint = NoPoint THEN Ret(h, FALSE, EmptyResult, <<>>)
        ELSE IF h.notMoved
                /\ Dist2(e.point, lastPoint) < h.clickTolerance * h.clickTolerance
        THEN Ret(h, FALSE, EmptyResult, <<>>)
        ELSE move(kind, [h EXCEPT !.notMoved = FALSE, !.lastPoint = e.point],
                  lastPoint, e.point)

MouseHandler_mouseup(h, e) ==
    IF e.button # h.eventButton THEN h ELSE MouseHandler_reset(h)

MouseHandler_enable(h) == [h EXCEPT !.enabled = TRUE]

MouseHandler_disable(h) == MouseHandler_reset([h EXCEPT !.enabled = FALSE])

---------------------------------------------------------------------------
(* map_event.js *)

MapEventHandler_reset(h) == [h EXCEPT !.mouseDownPos = NoPoint]

\* A _firePreventable that does not look at defaultPrevented.
firePreventable_ignoresVeto(h, e) == Ret(h, FALSE, EmptyResult, <<e.type>>)

\* map.fire(mapEvent); `prevented` is whether a listener called
\* mapEvent.preventDefault().
firePreventable(h, e) ==
    IF e.prevented THEN Ret(h, TRUE, EmptyResult, <<e.type>>)
    ELSE Ret(h, FALSE, EmptyResult, <<e.type>>)

MapEventHandler_click(h, e) ==
    IF h.mouseDownPos # NoPoint
       /\ Dist2(h.mouseDownPos, e.point) > h.clickTolerance * h.clickTolerance
    THEN Ret(h, FALSE, EmptyResult, <<>>)
    ELSE Ret(h, FALSE, EmptyResult, <<"click">>)

\* A map-event recognizer whose every notification can be vetoed.
MapEventHandler_on_allPreventable(h, e) ==
    CASE e.type = "mousedown" ->
           firePreventable([h EXCEPT !.mouseDownPos = e.point], e)
      [] e.type = "click" ->
           IF MapEventHandler_click(h, e).fired = <<>>
           THEN MapEventHandler_click(h, e) ELSE firePreventable(h, e)
      [] OTHER -> firePreventable(h, e)

MapEventHandler_on(h, e) ==
    CASE e.type = "mousedown" ->
           firePreventable([h EXCEPT !.mouseDownPos = e.point], e)
      [] e.type \in {"wheel", "dblclick", "touchstart"} -> firePreventable(h, e)
      [] e.type = "click" -> MapEventHandler_click(h, e)
      [] OTHER -> Ret(h, FALSE, EmptyResult, <<e.type>>)

BlockableMapEventHandler_reset(h) ==
    [h EXCEPT !.delayContextMenu = FALSE, !.contextMenuEvent = FALSE]

BlockableMapEventHandler_on(h, e) ==
    CASE e.type \in {"mousemove", "touchmove"} ->
           Ret(h, FALSE, EmptyResult, <<e.type>>)
      [] e.type = "mousedown" ->
           Ret([h EXCEPT !.delayContextMenu = TRUE], TRUE, EmptyResult, <<>>)
      [] e.type = "mouseup" ->
           IF h.contextMenuEvent
           THEN Ret([h EXCEPT !.delayContextMenu = FALSE,
                              !.contextMenuEvent = FALSE],
                    FALSE, EmptyResult, <<"contextmenu">>)
           ELSE Ret([h EXCEPT !.delayContextMenu = FALSE],
                    FALSE, EmptyResult, <<>>)
      [] OTHER -> \* contextmenu
           IF h.delayContextMenu
           THEN Ret([h EXCEPT !.contextMenuEvent = TRUE], FALSE, EmptyResult, <<>>)
           ELSE Ret(h, FALSE, EmptyResult, <<"contextmenu">>)

---------------------------------------------------------------------------
(* touch_zoom_rotate.js and touch_rotate.js                                *)
(*                                                                         *)
(* A touch event carries e.touches, a sequence of [id, p], and a           *)
(* timeStamp.  Angles are in tenths of a degree, like the bearing.  The    *)
(* vectors between the two fingers are drawn from RotVectors, whose        *)
(* lengths are whole numbers and whose directions are tabulated, so that   *)
(* Point.mag, Point.dist and Point.angleWith are computed exactly on them. *)
(* pinchAround only feeds the camera's projection and is not carried, and  *)
(* neither is _aroundCenter, which only selects it.                        *)

THRESHOLD == 20
ALLOWED_SINGLE_TOUCH_TIME == 100

NoVector == <<>>
NoTouches == <<>>
NoTime == 0 - 1

\* The fields of the two-touch recognizers, in one record shape.
\* valid is "undefined", "true" or "false".
IdleTouch ==
    [enabled |-> FALSE, active |-> FALSE, firstTwoTouches |-> NoTouches,
     distance |-> 0,
     minDiameter |-> 0, startVector |-> NoVector, vector |-> NoVector,
     valid |-> "undefined", firstMove |-> NoTime, lastPoints |-> <<>>]

RotVectors ==
    {<<100, 0>>, <<96, 28>>, <<80, 60>>, <<96, -28>>, <<48, 14>>}

\* Point.mag on RotVectors
Mag(v) == IF v = <<48, 14>> THEN 50 ELSE 100

\* The direction of v: atan2(v.y, v.x) in tenths of a degree, on RotVectors.
AngleOf(v) ==
    CASE v = <<100, 0>> -> 0
      [] v = <<96, 28>> -> 163
      [] v = <<48, 14>> -> 163
      [] v = <<80, 60>> -> 369
      [] OTHER -> 0 - 163

Abs(x) == IF x < 0 THEN 0 - x ELSE x

\* a.angleWith(b) * 180 / PI: the signed angle from a to b.
getBearingDelta(a, b) == AngleOf(b) - AngleOf(a)

\* Math.log(d / lastDistance) / Math.LN2, on the lengths of RotVectors.
Log2Ratio(d, lastDistance) ==
    CASE d = 2 * lastDistance -> 1
      [] 2 * d = lastDistance -> 0 - 1
      [] OTHER -> 0

\* handler_util getTouchesById: the points of the touches with the two
\* tracked identifiers, NoPoint for one that is not in the event.
PointOfTouch(touches, id) ==
    IF \E i \in 1..Len(touches) : touches[i].id = id
    THEN touches[CHOOSE i \in 1..Len(touches) : touches[i].id = id].p
    ELSE NoPoint

getTouchesById(e, ids) ==
    <<PointOfTouch(e.touches, ids[1]), PointOfTouch(e.touches, ids[2])>>

isVertical(vector) == Abs(vector[2]) > Abs(vector[1])

\* A reset that leaves _active as it is.
TwoTouchHandler_reset_keepsActive(kind, h) ==
    [h EXCEPT !.firstTwoTouches = NoTouches,
              !.distance = 0, !.minDiameter = 0,
              !.startVector = NoVector, !.vector = NoVector,
              !.valid = "undefined", !.firstMove = NoTime, !.lastPoints = <<>>]

\* reset() of TwoTouchHandler and of its three subclasses, and of the
\* TouchRotateHandler of touch_rotate.js.
TwoTouchHandler_reset(kind, h) ==
    LET h1 == [h EXCEPT !.active = FALSE, !.firstTwoTouches = NoTouches]
    IN  CASE kind = "touchZoom" -> [h1 EXCEPT !.distance = 0]
          [] kind \in {"touchRotate", "touchRotateAlone"} ->
               [h1 EXCEPT !.minDiameter = 0, !.startVector = NoVector,
                          !.vector = NoVector]
          [] OTHER ->
               [h1 EXCEPT !.valid = "undefined", !.firstMove = NoTime,
                          !.lastPoints = <<>>]

\* _start of the subclasses
TwoTouchHandler_start(kind, h, points) ==
    CASE kind = "touchZoom" ->
           [h EXCEPT !.distance = Mag(Point_sub(points[1], points[2]))]
      [] kind \in {"touchRotate", "touchRotateAlone"} ->
           [h EXCEPT !.startVector = Point_sub(points[1], points[2]),
                     !.vector = Point_sub(points[1], points[2]),
                     !.minDiameter = Mag(Point_sub(points[1], points[2]))]
      [] OTHER ->
           IF isVertical(Point_sub(points[1], points[2]))
           THEN [h EXCEPT !.lastPoints = points, !.valid = "false"]
           ELSE [h EXCEPT !.lastPoints = points]

TwoTouchHandler_touchstart(kind, h, e) ==
    IF h.firstTwoTouches # NoTouches \/ Len(e.touches) < 2 THEN h
    ELSE TwoTouchHandler_start(
             kind,
             [h EXCEPT !.firstTwoTouches = <<e.touches[1].id, e.touches[2].id>>],
             <<e.touches[1].p, e.touches[2].p>>)

\* _isBelowThreshold / _isWithinThreshold, with the _minDiameter it leaves:
\* |delta| < THRESHOLD / (PI * minDiameter) * 360, with delta in tenths of
\* a degree and 355/113 for PI (exact on these whole numbers).
minDiameterAfter(h, vector) ==
    IF Mag(vector) < h.minDiameter THEN Mag(vector) ELSE h.minDiameter

isBelowThreshold(h, vector) ==
    Abs(getBearingDelta(vector, h.startVector)) * minDiameterAfter(h, vector) * 355
        < THRESHOLD * 360 * 10 * 113

\* A rotate _move that applies the threshold to every move.
TouchRotateHandler_move_alwaysThreshold(h, points) ==
    LET lastVector == h.vector
        vector == Point_sub(points[1], points[2])
        h1 == [h EXCEPT !.vector = vector]
    IN  IF isBelowThreshold(h1, vector)
        THEN Ret([h1 EXCEPT !.minDiameter = minDiameterAfter(h1, vector)],
                 FALSE, EmptyResult, <<>>)
        ELSE Ret([h1 EXCEPT !.active = TRUE], TRUE,
                 [EmptyResult EXCEPT
                    !.fields = {"bearingDelta"},
                    !.bearingDelta = getBearingDelta(vector, lastVector)],
                 <<>>)

\* TouchRotateHandler._move (touch_zoom_rotate.js 127-138) and the body of
\* touchmove of touch_rotate.js (72-85), which compute the same.
TouchRotateHandler_move(h, points) ==
    LET lastVector == h.vector
        vector == Point_sub(points[1], points[2])
        h1 == [h EXCEPT !.vector = vector]
    IN  IF ~h1.active /\ isBelowThreshold(h1, vector)
        THEN Ret([h1 EXCEPT !.minDiameter = minDiameterAfter(h1, vector)],
                 FALSE, EmptyResult, <<>>)
        ELSE Ret([h1 EXCEPT
                    !.active = TRUE,
                    !.minDiameter = IF h1.active THEN @
                                    ELSE minDiameterAfter(h1, vector)],
                 TRUE,
                 [EmptyResult EXCEPT
                    !.fields = {"bearingDelta"},
                    !.bearingDelta = getBearingDelta(vector, lastVector)],
                 <<>>)

TouchZoomHandler_move(h, points) ==
    LET lastDistance == h.distance
        distance == Mag(Point_sub(points[1], points[2]))
    IN  Ret([h EXCEPT !.active = TRUE, !.distance = distance], TRUE,
            [EmptyResult EXCEPT !.fields = {"zoomDelta"},
                                !.zoomDelta = Log2Ratio(distance, lastDistance)],
            <<>>)

\* gestureBeginsVertically: the new _valid and the new _firstMove.
gestureBeginsVertically(h, vectorA, vectorB, timeStamp) ==
    IF h.valid # "undefined" THEN [valid |-> h.valid, firstMove |-> h.firstMove]
    ELSE IF Mag2(vectorA) = 0 \/ Mag2(vectorB) = 0
    THEN LET firstMove == IF h.firstMove = NoTime THEN timeStamp
                          ELSE h.firstMove
         IN  [valid |-> IF timeStamp - firstMove < ALLOWED_SINGLE_TOUCH_TIME
                        THEN "undefined" ELSE "false",
              firstMove |-> firstMove]
    ELSE [valid |-> IF isVertical(vectorA) /\ isVertical(vectorB)
                       /\ ((vectorA[2] > 0) <=> (vectorB[2] > 0))
                    THEN "true" ELSE "false",
          firstMove |-> h.firstMove]

\* pitchDelta in tenths of a degree: ((a.y + b.y) / 2) * -0.5 * 10; the
\* touch points have even ordinates, so the division is exact.
TouchPitchHandler_move(h, points, e) ==
    LET vectorA == Point_sub(points[1], h.lastPoints[1])
        vectorB == Point_sub(points[2], h.lastPoints[2])
        g == gestureBeginsVertically(h, vectorA, vectorB, e.timeStamp)
        h1 == [h EXCEPT !.valid = g.valid, !.firstMove = g.firstMove]
    IN  IF g.valid # "true" THEN Ret(h1, FALSE, EmptyResult, <<>>)
        ELSE Ret([h1 EXCEPT !.lastPoints = points, !.active = TRUE], TRUE,
                 [EmptyResult EXCEPT
                    !.fields = {"pitchDelta"},
                    !.pitchDelta =
                       ((vectorA[2] + vectorB[2]) * (0 - 5)) \div 2],
                 <<>>)

TwoTouchHandler_move(kind, h, points, e) ==
    CASE kind = "touchZoom" -> TouchZoomHandler_move(h, points)
      [] kind \in {"touchRotate", "touchRotateAlone"} ->
           TouchRotateHandler_move(h, points)
      [] OTHER -> TouchPitchHandler_move(h, points, e)

\* touch_rotate.js reads a.sub(b) without looking whether both tracked
\* touches are in the event; that TypeError is Threw.
Threw(h) ==
    [h |-> h, data |-> FALSE, r |-> EmptyResult, fired |-> <<>>, threw |-> TRUE]

TwoTouchHandler_touchmove(kind, h, e) ==
    IF h.firstTwoTouches = NoTouches THEN Ret(h, FALSE, EmptyResult, <<>>)
    ELSE LET touchPoints == getTouchesById(e, h.firstTwoTouches)
         IN  IF touchPoints[1] = NoPoint \/ touchPoints[2] = NoPoint
             THEN IF kind = "touchRotateAlone" THEN Threw(h)
                  ELSE Ret(h, FALSE, EmptyResult, <<>>)
             ELSE TwoTouchHandler_move(kind, h, touchPoints, e)

TwoTouchHandler_touchend(kind, h, e) ==
    IF h.firstTwoTouches = NoTouches THEN h
    ELSE LET touchPoints == getTouchesById(e, h.firstTwoTouches)
         IN  IF touchPoints[1] # NoPoint /\ touchPoints[2] # NoPoint THEN h
             ELSE TwoTouchHandler_reset(kind, h)

TwoTouchHandler_enable(h) == [h EXCEPT !.enabled = TRUE]

TwoTouchHandler_disable(kind, h) ==
    TwoTouchHandler_reset(kind, [h EXCEPT !.enabled = FALSE])

---------------------------------------------------------------------------
(* The Handler interface, by kind of recognizer *)

OpaqueNames == {"A", "B"}

\* The class of the recognizer registered under a name.
Kind(name) == IF name \in OpaqueNames THEN "opaque" ELSE name

MouseKinds == {"mousePan", "mouseRotate", "mousePitch"}

\* "touchRotateAlone" is the TouchRotateHandler of touch_rotate.js.
TouchKinds == {"touchZoom", "touchRotate", "touchPitch", "touchRotateAlone"}

MapEventTypes ==
    {"wheel", "mousedown", "mouseup", "click", "dblclick", "mouseover",
     "mouseout", "touchstart", "touchend", "touchcancel"}

\* (handler)[e.type] is defined
Handles(kind, type) ==
    CASE kind = "mapEvent" -> type \in MapEventTypes
      [] kind = "blockableMapEvent" ->
           type \in {"mousemove", "touchmove", "mousedown", "mouseup", "contextmenu"}
      [] kind = "mousePan" -> type \in {"mousedown", "mousemove", "mouseup"}
      [] kind \in {"mouseRotate", "mousePitch"} ->
           type \in {"mousedown", "mousemove", "mouseup", "contextmenu"}
      [] kind \in TouchKinds -> type \in {"touchstart", "touchmove", "touchend"}
      [] OTHER -> TRUE

isEnabled(kind, h) ==
    IF kind \in {"mapEvent", "blockableMapEvent"} THEN TRUE ELSE h.enabled

handlerIsActive(kind, h) ==
    IF kind \in {"mapEvent", "blockableMapEvent"} THEN FALSE ELSE h.active

\* An opaque recognizer's reset() leaves it inactive (the Handler contract).
Opaque_reset(h) == [h EXCEPT !.active = FALSE]

\* An opaque recognizer's enable() makes isEnabled() true.
Opaque_enable(h) == [h EXCEPT !.enabled = TRUE]

reset(kind, h) ==
    CASE kind = "mapEvent" -> MapEventHandler_reset(h)
      [] kind = "blockableMapEvent" -> BlockableMapEventHandler_reset(h)
      [] kind \in MouseKinds -> MouseHandler_reset(h)
      [] kind \in TouchKinds -> TwoTouchHandler_reset(kind, h)
      [] OTHER -> Opaque_reset(h)

\* An opaque recognizer answers an event as its input `o` says.
Opaque_on(h, o) == Ret([h EXCEPT !.active = o.active], o.data, o.r, <<>>)

\* handler[e.type](e, points)
Callback(name, h, e) ==
    LET kind == Kind(name)
    IN  CASE kind = "mapEvent" -> MapEventHandler_on(h, e)
          [] kind = "blockableMapEvent" -> BlockableMapEventHandler_on(h, e)
          [] kind \in MouseKinds ->
               CASE e.type = "mousedown" ->
                      Ret(IF kind = "mousePan"
                          THEN MousePanHandler_mousedown(h, e)
                          ELSE MouseHandler_mousedown(kind, h, e),
                          FALSE, EmptyResult, <<>>)
                 [] e.type = "mousemove" -> MouseHandler_mousemove(kind, h, e)
                 [] e.type = "mouseup" ->
                      Ret(MouseHandler_mouseup(h, e), FALSE, EmptyResult, <<>>)
                 [] OTHER -> Ret(h, FALSE, EmptyResult, <<>>)
          [] kind \in TouchKinds ->
               CASE e.type = "touchstart" ->
                      Ret(TwoTouchHandler_touchstart(kind, h, e),
                          FALSE, EmptyResult, <<>>)
                 [] e.type = "touchmove" -> TwoTouchHandler_touchmove(kind, h, e)
                 [] OTHER ->
                      Ret(TwoTouchHandler_touchend(kind, h, e),
                          FALSE, EmptyResult, <<>>)
          [] OTHER -> Opaque_on(h, e.opaque[name])

---------------------------------------------------------------------------
(* HandlerManager: helpers *)

hasChange(r) ==
    \/ ("panDelta" \in r.fields /\ Mag2(r.panDelta) # 0)
    \/ ("zoomDelta" \in r.fields /\ r.zoomDelta # 0)
    \/ ("bearingDelta" \in r.fields /\ r.bearingDelta # 0)
    \/ ("pitchDelta" \in r.fields /\ r.pitchDelta # 0)

\* util.extend(dest, src): the properties of src overwrite those of dest.
extend(dest, src) ==
    [fields |-> dest.fields \cup src.fields,
     panDelta |-> IF "panDelta" \in src.fields THEN src.panDelta ELSE dest.panDelta,
     zoomDelta |-> IF "zoomDelta" \in src.fields THEN src.zoomDelta ELSE dest.zoomDelta,
     bearingDelta |-> IF "bearingDelta" \in src.fields THEN src.bearingDelta
                      ELSE dest.bearingDelta,
     pitchDelta |-> IF "pitchDelta" \in src.fields THEN src.pitchDelta ELSE dest.pitchDelta,
     duration |-> IF "duration" \in src.fields THEN src.duration ELSE dest.duration,
     needsRenderFrame |-> IF "needsRenderFrame" \in src.fields THEN src.needsRenderFrame
                          ELSE dest.needsRenderFrame]

extendEip(dest, src) ==
    [a \in AxisSet |-> IF src[a] # NoName THEN src[a] ELSE dest[a]]

\* A blockedByActive that blocks on every other active recognizer, whatever
\* the allow-list says.
blockedByActive_ignoresAllowList(activeHandlers, allowed, myName) ==
    \E name \in activeHandlers : name # myName

\* A blockedByActive that reads an absent or empty allow-list as "block on
\* nobody".
blockedByActive_emptyAllowsAll(activeHandlers, allowed, myName) ==
    \E name \in activeHandlers :
        name # myName /\ allowed # {} /\ name \notin allowed

\* The allow-list is a set of names; an absent list and an empty one block alike.
blockedByActive(activeHandlers, allowed, myName) ==
    \E name \in activeHandlers : name # myName /\ name \notin allowed

\* A merge in which an axis keeps the first recognizer that set it.
mergeHandlerResult_firstOwner(acc, data, r, name) ==
    IF ~data THEN acc
    ELSE [acc EXCEPT
            !.merged = extend(acc.merged, r),
            !.eip = [a \in AxisSet |->
                       IF acc.eip[a] # NoName THEN acc.eip[a]
                       ELSE CASE a = "zoom" /\ "zoomDelta" \in r.fields -> name
                              [] a = "drag" /\ "panDelta" \in r.fields -> name
                              [] a = "pitch" /\ "pitchDelta" \in r.fields -> name
                              [] a = "rotate" /\ "bearingDelta" \in r.fields -> name
                              [] OTHER -> NoName]]

\* acc carries mergedHandlerResult and the pass's eventsInProgress.
mergeHandlerResult(acc, data, r, name) ==
    IF ~data THEN acc
    ELSE [acc EXCEPT
            !.merged = extend(acc.merged, r),
            !.eip = [a \in AxisSet |->
                       CASE a = "zoom" /\ "zoomDelta" \in r.fields -> name
                         [] a = "drag" /\ "panDelta" \in r.fields -> name
                         [] a = "pitch" /\ "pitchDelta" \in r.fields -> name
                         [] a = "rotate" /\ "bearingDelta" \in r.fields -> name
                         [] OTHER -> acc.eip[a]]]

Min(a, b) == IF a < b THEN a ELSE b

\* A triggerRenderFrame that requests nothing.
triggerRenderFrame_never(M) == M

\* A triggerRenderFrame that requests a callback whatever _frameId is.
triggerRenderFrame_always(M) ==
    [M EXCEPT !.frameId = TRUE, !.pending = Min(M.pending + 1, MaxPending)]

\* Works on any record with frameId and pending.
triggerRenderFrame(M) ==
    IF ~M.frameId
    THEN [M EXCEPT !.frameId = TRUE, !.pending = Min(M.pending + 1, MaxPending)]
    ELSE M

isMoving(p) == \E a \in AxisSet : p[a] # NoName

---------------------------------------------------------------------------
(* HandlerManager: registration *)

\* handler.enable(); the map-event recognizers' enable() is empty.
enable(kind, h) ==
    CASE kind \in {"mapEvent", "blockableMapEvent"} -> h
      [] kind \in MouseKinds -> MouseHandler_enable(h)
      [] kind \in TouchKinds -> TwoTouchHandler_enable(h)
      [] OTHER -> Opaque_enable(h)

\* An add() without the duplicate check.
add_overwrites(M, handlerName, allowed) ==
    [M |-> [M EXCEPT
              !.handlers = Append(@, [name |-> handlerName, allowed |-> allowed]),
              !.byId = @ \cup {handlerName},
              !.hs[handlerName] = enable(Kind(handlerName), @)],
     threw |-> FALSE, enabled |-> TRUE]

\* The manager after add(handlerName, handler, allowed), whether it threw,
\* and whether handler.enable() was called on the recognizer passed in.
add(M, handlerName, allowed) ==
    IF handlerName \in M.byId
    THEN [M |-> M, threw |-> TRUE, enabled |-> FALSE]
    ELSE [M |-> [M EXCEPT
                   !.handlers = Append(@, [name |-> handlerName,
                                           allowed |-> allowed]),
                   !.byId = @ \cup {handlerName},
                   !.hs[handlerName] = enable(Kind(handlerName), @)],
          threw |-> FALSE, enabled |-> TRUE]

---------------------------------------------------------------------------
(* HandlerManager: lifecycle notifications and stop()                      *)
(*                                                                         *)
(* M is the manager: [handlers, byId, hs, prev, changes, eip, frameId,     *)
(* pending, updating, tr, log, pass].  L is the set of notification types  *)
(* at which a listener calls back into stop(); the listener does so once,  *)
(* so the notifications of that stop() run with L = {}.  Axes are visited  *)
(* in the order of Axes.                                                   *)

RECURSIVE stop(_, _), fireEvents(_, _, _, _), fireEvent(_, _, _),
          startLoop(_, _, _, _), axisLoop(_, _, _, _), endLoop(_, _, _)

\* map.fire(type) with the listener's reaction
fireEvent(M, type, L) ==
    LET M1 == [M EXCEPT !.log = Append(@, type)]
    IN  IF type \in L THEN stop(M1, {}) ELSE M1

\* A start loop that publishes <axis>start for axes already in progress.
startLoop_always(M, new, L, i) ==
    IF i > Len(Axes) THEN M
    ELSE LET a == Axes[i]
         IN  IF new[a] = NoName THEN startLoop(M, new, L, i + 1)
             ELSE startLoop([fireEvent(M, a \o "start", L) EXCEPT
                               !.eip[a] = new[a]],
                            new, L, i + 1)

\* part_000 391-397
startLoop(M, new, L, i) ==
    IF i > Len(Axes) THEN M
    ELSE LET a == Axes[i]
         IN  IF new[a] = NoName THEN startLoop(M, new, L, i + 1)
             ELSE LET M1 == IF M.eip[a] = NoName
                            THEN fireEvent(M, a \o "start", L) ELSE M
                      M2 == [M1 EXCEPT !.eip[a] = new[a]]
                  IN  startLoop(M2, new, L, i + 1)

\* part_000 405-407
axisLoop(M, new, L, i) ==
    IF i > Len(Axes) THEN M
    ELSE LET a == Axes[i]
         IN  IF new[a] = NoName THEN axisLoop(M, new, L, i + 1)
             ELSE axisLoop(fireEvent(M, a, L), new, L, i + 1)

\* part_000 409-415
endLoop(M, L, i) ==
    IF i > Len(Axes) THEN M
    ELSE LET a == Axes[i]
             handlerName == M.eip[a]
         IN  IF handlerName = NoName THEN endLoop(M, L, i + 1)
             ELSE IF ~handlerIsActive(Kind(handlerName), M.hs[handlerName])
             THEN endLoop(fireEvent([M EXCEPT !.eip[a] = NoName], a \o "end", L),
                          L, i + 1)
             ELSE endLoop(M, L, i + 1)

\* `ease` is whether inertia._onMoveEnd returns an easing descriptor.
\* _bearingChanged and the bearing snap only feed the camera's easing.
fireEvents(M, newEventsInProgress, L, ease) ==
    LET wasMoving == isMoving(M.eip)
        nowMoving == isMoving(newEventsInProgress)
        M1 == IF ~wasMoving /\ nowMoving THEN fireEvent(M, "movestart", L) ELSE M
        M2 == startLoop(M1, newEventsInProgress, L, 1)
        M3 == IF nowMoving THEN fireEvent(M2, "move", L) ELSE M2
        M4 == axisLoop(M3, newEventsInProgress, L, 1)
        M5 == endLoop(M4, L, 1)
        stillMoving == isMoving(M5.eip)
    IN  IF (wasMoving \/ nowMoving) /\ ~stillMoving
        THEN LET M6 == [M5 EXCEPT !.updating = TRUE]
                 M7 == IF ease THEN [M6 EXCEPT !.log = Append(@, "easeTo")]
                       ELSE fireEvent(M6, "moveend", L)
             IN  [M7 EXCEPT !.updating = FALSE]
        ELSE M5

Registered(M) == {M.handlers[i].name : i \in 1..Len(M.handlers)}

\* A stop() that resets and clears the queue without fireEvents({}).
stop_skipsEvents(M, L) ==
    IF M.updating THEN M
    ELSE [M EXCEPT !.hs = [n \in DOMAIN M.hs |->
                             IF n \in Registered(M)
                             THEN reset(Kind(n), M.hs[n]) ELSE M.hs[n]],
                   !.changes = <<>>]

\* inertia.clear() empties the tracker, so the _onMoveEnd that follows
\* returns nothing.
stop(M, L) ==
    IF M.updating THEN M
    ELSE LET M1 == [M EXCEPT !.hs = [n \in DOMAIN M.hs |->
                                       IF n \in Registered(M)
                                       THEN reset(Kind(n), M.hs[n]) ELSE M.hs[n]]]
             M2 == fireEvents(M1, NoEip, L, FALSE)
         IN  [M2 EXCEPT !.changes = <<>>]

---------------------------------------------------------------------------
(* HandlerManager: frame application *)

Truthy(r, f) ==
    f \in r.fields /\
    CASE f = "zoomDelta" -> r.zoomDelta # 0
      [] f = "bearingDelta" -> r.bearingDelta # 0
      [] f = "pitchDelta" -> r.pitchDelta # 0
      [] f = "duration" -> r.duration # 0
      [] OTHER -> TRUE

\* A loop body that assigns each delta instead of adding it.
combineStep_overwrites(cr, change) ==
    LET k == cr.combined
        r == change.r
    IN  [combined |->
            [fields |-> k.fields \cup {f \in r.fields : Truthy(r, f)},
             duration |-> IF Truthy(r, "duration") THEN r.duration ELSE k.duration,
             panDelta |-> IF Truthy(r, "panDelta") THEN r.panDelta ELSE k.panDelta,
             zoomDelta |-> IF Truthy(r, "zoomDelta") THEN r.zoomDelta
                           ELSE k.zoomDelta,
             bearingDelta |-> IF Truthy(r, "bearingDelta") THEN r.bearingDelta
                              ELSE k.bearingDelta,
             pitchDelta |-> IF Truthy(r, "pitchDelta") THEN r.pitchDelta
                            ELSE k.pitchDelta,
             needsRenderFrame |-> FALSE],
         eip |-> extendEip(cr.eip, change.eip)]

\* One iteration of the loop of applyChanges; cr = [combined, eip].
combineStep(cr, change) ==
    LET c0 == IF Truthy(change.r, "duration") /\ Truthy(cr.combined, "duration")
              THEN [combined |-> EmptyResult, eip |-> NoEip] ELSE cr
        k == c0.combined
        r == change.r
        present == {f \in {"duration", "panDelta", "zoomDelta", "bearingDelta",
                           "pitchDelta"} : Truthy(r, f)}
    IN  [combined |->
            [fields |-> k.fields \cup present,
             duration |-> IF Truthy(r, "duration") THEN r.duration ELSE k.duration,
             panDelta |-> IF Truthy(r, "panDelta") THEN Point_add(k.panDelta, r.panDelta)
                          ELSE k.panDelta,
             zoomDelta |-> IF Truthy(r, "zoomDelta") THEN k.zoomDelta + r.zoomDelta
                           ELSE k.zoomDelta,
             bearingDelta |-> IF Truthy(r, "bearingDelta")
                              THEN k.bearingDelta + r.bearingDelta ELSE k.bearingDelta,
             pitchDelta |-> IF Truthy(r, "pitchDelta") THEN k.pitchDelta + r.pitchDelta
                            ELSE k.pitchDelta,
             needsRenderFrame |-> FALSE],
         eip |-> extendEip(c0.eip, change.eip)]

RECURSIVE combine(_, _, _)
combine(queue, i, cr) ==
    IF i > Len(queue) THEN cr ELSE combine(queue, i + 1, combineStep(cr, queue[i]))

Combined(queue) == combine(queue, 1, [combined |-> EmptyResult, eip |-> NoEip])

\* The camera keeps the world point under `around` fixed; with the
\* projection left out, a pan moves the centre by -panDelta.  Components
\* wrap so that the model stays finite.
applyToTransform(t, r) ==
    [center |-> IF Truthy(r, "panDelta")
                THEN <<(t.center[1] - r.panDelta[1]) % TrMod,
                       (t.center[2] - r.panDelta[2]) % TrMod>>
                ELSE t.center,
     bearing |-> IF Truthy(r, "bearingDelta")
                 THEN (t.bearing + r.bearingDelta) % (8 * TrMod) ELSE t.bearing,
     pitch |-> IF Truthy(r, "pitchDelta")
               THEN (t.pitch + r.pitchDelta) % (5 * TrMod) ELSE t.pitch,
     zoom |-> IF Truthy(r, "zoomDelta")
              THEN (t.zoom + r.zoomDelta) % TrMod ELSE t.zoom]

updateMapTransform(M, combinedResult, combinedEventsInProgress, L, ease) ==
    IF ~hasChange(combinedResult)
    THEN fireEvents(M, combinedEventsInProgress, L, ease)
    ELSE IF Truthy(combinedResult, "duration")
    THEN \* inertia.clear(); map.easeTo(easeOptions): the camera animates later
         [M EXCEPT !.log = Append(@, "easeTo")]
    ELSE fireEvents([M EXCEPT !.tr = applyToTransform(@, combinedResult)],
                    combinedEventsInProgress, L, ease)

applyChanges(M, L, ease) ==
    LET cr == Combined(M.changes)
        M1 == updateMapTransform(M, cr.combined, cr.eip, L, ease)
    IN  [M1 EXCEPT !.changes = <<>>]

---------------------------------------------------------------------------
(* HandlerManager: the dispatch pass *)

AllNames ==
    {"mapEvent", "mouseRotate", "mousePitch", "mousePan", "blockableMapEvent"}
    \cup OpaqueNames

NoPass ==
    [ran |-> FALSE, type |-> "", prevented |-> FALSE, resetSet |-> {},
     dispatched |-> {}, activeAt |-> [n \in OpaqueNames |-> {}],
     merged |-> EmptyResult, pushed |-> FALSE]

\* One iteration of the loop over this._handlers (part_000 238-260).
\* acc: the recognizers' fields, the merged result, the pass's
\* eventsInProgress, activeHandlers, the frame request, and the history of
\* the pass (recognizers reset, recognizers the event was dispatched to,
\* and activeHandlers as the turn of each added recognizer came).
passStep(acc, reg, e) ==
    LET name == reg.name
        kind == Kind(name)
        h == acc.hs[name]
    IN  IF ~isEnabled(kind, h) THEN acc
        ELSE
        LET blocked == blockedByActive(acc.active, reg.allowed, name)
            called == ~blocked /\ Handles(kind, e.type)
            ret == IF blocked THEN Ret(reset(kind, h), FALSE, EmptyResult, <<>>)
                   ELSE IF called THEN Callback(name, h, e)
                   ELSE Ret(h, FALSE, EmptyResult, <<>>)
            a1 == mergeHandlerResult(acc, ret.data, ret.r, name)
            a2 == IF ret.data /\ "needsRenderFrame" \in ret.r.fields
                     /\ ret.r.needsRenderFrame
                  THEN triggerRenderFrame(a1) ELSE a1
        IN  [a2 EXCEPT
               !.hs[name] = ret.h,
               !.active = IF ret.data \/ handlerIsActive(kind, ret.h)
                          THEN @ \cup {name} ELSE @ \ {name},
               !.log = @ \o ret.fired,
               !.resetSet = IF blocked THEN @ \cup {name} ELSE @,
               !.dispatched = IF called THEN @ \cup {name} ELSE @,
               !.activeAt = IF name \in OpaqueNames
                            THEN [@ EXCEPT ![name] = acc.active] ELSE @]

RECURSIVE passLoop(_, _, _, _)
passLoop(regs, i, acc, e) ==
    IF i > Len(regs) THEN acc
    ELSE passLoop(regs, i + 1, passStep(acc, regs[i], e), e)

\* A pass that starts from the previous pass's active set instead of {}.
startPass_keepsActive(M) ==
    [hs |-> M.hs,
     merged |-> [EmptyResult EXCEPT !.fields = {"needsRenderFrame"}],
     eip |-> NoEip, active |-> M.prev,
     frameId |-> M.frameId, pending |-> M.pending,
     log |-> M.log, resetSet |-> {}, dispatched |-> {},
     activeAt |-> [n \in OpaqueNames |-> {}]]

\* part_000 230-232: the locals of processInputEvent
startPass(M) ==
    [hs |-> M.hs,
     merged |-> [EmptyResult EXCEPT !.fields = {"needsRenderFrame"}],
     eip |-> NoEip, active |-> {},
     frameId |-> M.frameId, pending |-> M.pending,
     log |-> M.log, resetSet |-> {}, dispatched |-> {},
     activeAt |-> [n \in OpaqueNames |-> {}]]

\* An end of pass that queues a change only for a nonzero delta.
finishPass_ignoresHandlersChanged(M, acc, e) ==
    LET handlersChanged == \E name \in M.prev : name \notin acc.active
        push == hasChange(acc.merged)
        M1 == [M EXCEPT !.hs = acc.hs, !.prev = acc.active,
                        !.frameId = acc.frameId, !.pending = acc.pending,
                        !.log = acc.log,
                        !.pass = [ran |-> TRUE, type |-> e.type,
                                  prevented |-> e.prevented,
                                  resetSet |-> acc.resetSet,
                                  dispatched |-> acc.dispatched,
                                  activeAt |-> acc.activeAt,
                                  merged |-> acc.merged,
                                  pushed |-> push]]
        M2 == IF push
              THEN triggerRenderFrame(
                     [M1 EXCEPT !.changes = Append(@, [r |-> acc.merged,
                                                       eip |-> acc.eip])])
              ELSE M1
    IN  [M2 EXCEPT !.updating = FALSE]

\* part_000 262-277: what follows the loop
finishPass(M, acc, e) ==
    LET handlersChanged == \E name \in M.prev : name \notin acc.active
        push == handlersChanged \/ hasChange(acc.merged)
        M1 == [M EXCEPT !.hs = acc.hs, !.prev = acc.active,
                        !.frameId = acc.frameId, !.pending = acc.pending,
                        !.log = acc.log,
                        !.pass = [ran |-> TRUE, type |-> e.type,
                                  prevented |-> e.prevented,
                                  resetSet |-> acc.resetSet,
                                  dispatched |-> acc.dispatched,
                                  activeAt |-> acc.activeAt,
                                  merged |-> acc.merged,
                                  pushed |-> push]]
        M2 == IF push
              THEN triggerRenderFrame(
                     [M1 EXCEPT !.changes = Append(@, [r |-> acc.merged,
                                                       eip |-> acc.eip])])
              ELSE M1
    IN  [M2 EXCEPT !.updating = FALSE]

\* A dispatch that applies its change at once instead of queueing it.
processInputEvent_applies(M, e) ==
    applyChanges(finishPass(M, passLoop(M.handlers, 1, startPass(M), e), e),
                 {}, FALSE)

\* part_000 222-278, for an event that carries a timeStamp
processInputEvent(M, e) ==
    finishPass(M, passLoop(M.handlers, 1, startPass(M), e), e)

---------------------------------------------------------------------------
(* Inputs *)

NoResponse == [active |-> FALSE, data |-> FALSE, r |-> EmptyResult]

\* What an opaque recognizer may answer: nothing, nothing while reporting
\* itself active, an empty result, or a zoom step while active.
OpaqueResponses ==
    {NoResponse,
     [active |-> TRUE, data |-> FALSE, r |-> EmptyResult],
     [active |-> FALSE, data |-> TRUE, r |-> EmptyResult],
     [active |-> TRUE, data |-> TRUE,
      r |-> [EmptyResult EXCEPT !.fields = {"zoomDelta"}, !.zoomDelta = 1]]}

Event(type, point, button, ctrlKey, prevented, oa, ob) ==
    [type |-> type, point |-> point, button |-> button, ctrlKey |-> ctrlKey,
     prevented |-> prevented, opaque |-> [n \in OpaqueNames |->
                                            IF n = "A" THEN oa ELSE ob]]

RenderFrameEvent(oa, ob) ==
    Event("renderFrame", NoPoint, NoButton, FALSE, FALSE, oa, ob)

PreventableTypes == {"mousedown", "wheel", "dblclick", "touchstart"}

\* Pointer events of the listeners of part_000 112-129, with the fields
\* the recognizers read.
MouseEvents(oa, ob) ==
    {Event("mousedown", p, bc[1], bc[2], v, oa, ob) :
        p \in Points, v \in BOOLEAN,
        bc \in {<<LEFT_BUTTON, FALSE>>, <<LEFT_BUTTON, TRUE>>,
                <<RIGHT_BUTTON, FALSE>>}}
    \cup {Event("mousemove", p, NoButton, FALSE, FALSE, oa, ob) : p \in Points}
    \cup {Event("mouseup", NoPoint, b, FALSE, FALSE, oa, ob) : b \in Buttons}

OtherEvents(oa, ob) ==
    {Event(t, NoPoint, NoButton, FALSE, v, oa, ob) :
        t \in {"wheel", "dblclick", "touchstart"}, v \in BOOLEAN}

ResponsesOf(name) ==
    IF name \in handlersById THEN OpaqueResponses ELSE {NoResponse}

\* Where a listener calls stop(): nowhere, or at one notification type.
ListenerStops ==
    {{}} \cup {{t} : t \in {"movestart", "dragstart", "move", "drag",
                            "dragend", "moveend"}}

---------------------------------------------------------------------------
(* State machine *)

DefaultHandlers ==
    << [name |-> "mapEvent", allowed |-> {}],
       [name |-> "mouseRotate", allowed |-> {"mousePitch"}],
       [name |-> "mousePitch", allowed |-> {"mouseRotate"}],
       [name |-> "mousePan", allowed |-> {}],
       [name |-> "blockableMapEvent", allowed |-> {}] >>

NoOp ==
    [name |-> "init", arg |-> NoName, threw |-> FALSE, enabledNew |-> FALSE,
     guarded |-> FALSE, stopAt |-> {}, ease |-> FALSE, flushed |-> 0,
     wasActive |-> FALSE, e |-> <<>>]

InitTr == [center |-> <<0, 0>>, bearing |-> 0, pitch |-> 0, zoom |-> 0]

NoCounts ==
    [phase |-> "idle", button |-> NoButton, path |-> <<>>, moves |-> 0,
     frames |-> 0, now |-> 0, delivered |-> "", contextmenu |-> 0,
     movestart |-> 0, dragstart |-> 0, move |-> 0, drag |-> 0,
     dragend |-> 0, moveend |-> 0,
     open |-> {}, ok |-> TRUE, stopped |-> FALSE, disabled |-> FALSE]

Init ==
    /\ handlers = DefaultHandlers
    /\ handlersById = {DefaultHandlers[i].name : i \in 1..Len(DefaultHandlers)}
    /\ hs = [n \in AllNames |->
               IF n \in handlersById THEN [IdleHandler EXCEPT !.enabled = TRUE]
               ELSE IdleHandler]
    /\ previousActiveHandlers = {}
    /\ changes = <<>>
    /\ eventsInProgress = NoEip
    /\ frameId = FALSE
    /\ pendingFrames = 0
    /\ updatingCamera = FALSE
    /\ tr = InitTr
    /\ op = NoOp
    /\ pass = NoPass
    /\ log = <<>>
    /\ counts = NoCounts

Mgr ==
    [handlers |-> handlers, byId |-> handlersById, hs |-> hs,
     prev |-> previousActiveHandlers, changes |-> changes,
     eip |-> eventsInProgress, frameId |-> frameId, pending |-> pendingFrames,
     updating |-> updatingCamera, tr |-> tr, log |-> <<>>, pass |-> NoPass]

Install(M) ==
    /\ handlers' = M.handlers
    /\ handlersById' = M.byId
    /\ hs' = M.hs
    /\ previousActiveHandlers' = M.prev
    /\ changes' = M.changes
    /\ eventsInProgress' = M.eip
    /\ frameId' = M.frameId
    /\ pendingFrames' = M.pending
    /\ updatingCamera' = M.updating
    /\ tr' = M.tr
    /\ log' = M.log
    /\ pass' = M.pass

\* A listener of part_000 137 runs processInputEvent(e).
Dispatch(e) ==
    LET M == processInputEvent([Mgr EXCEPT !.updating = TRUE], e)
    IN  /\ Len(M.changes) <= MaxChanges
        /\ Install(M)
        /\ op' = [NoOp EXCEPT !.name = "dispatch"]

\* The callback of part_000 447-451: the renderFrame pass, then the flush.
frameCallback(M, oa, ob, L, ease) ==
    LET M0 == [M EXCEPT !.frameId = FALSE, !.pending = @ - 1, !.updating = TRUE]
        M1 == processInputEvent(M0, RenderFrameEvent(oa, ob))
    IN  [applyChanges(M1, L, ease) EXCEPT !.pass = NoPass]

\* this._changes as applyChanges finds it in the callback.
flushQueue(M, oa, ob) ==
    processInputEvent([M EXCEPT !.updating = TRUE],
                      RenderFrameEvent(oa, ob)).changes

\* op.flushed: how many changes the flush found in the queue.
Frame(oa, ob, L, ease) ==
    /\ pendingFrames > 0
    /\ Install(frameCallback(Mgr, oa, ob, L, ease))
    /\ op' = [NoOp EXCEPT
                !.name = "renderFrame", !.stopAt = L, !.ease = ease,
                !.flushed = Len(flushQueue(Mgr, oa, ob))]

MouseInput ==
    /\ \E e \in MouseEvents(NoResponse, NoResponse) : Dispatch(e)
    /\ UNCHANGED counts

OtherInput ==
    /\ \E e \in OtherEvents(NoResponse, NoResponse) : Dispatch(e)
    /\ UNCHANGED counts

\* An event without timeStamp: the assertion of part_000 225 throws after
\* _updatingCamera was set.
InputEventNoTimeStamp ==
    /\ Install([Mgr EXCEPT !.updating = TRUE])
    /\ op' = [NoOp EXCEPT !.name = "dispatch", !.threw = TRUE]
    /\ UNCHANGED counts

RenderFrame ==
    /\ \E ease \in BOOLEAN : Frame(NoResponse, NoResponse, {}, ease)
    /\ UNCHANGED counts

\* stop(), from the blur listener of part_000 131 or from the camera.
Stop ==
    /\ Install(stop(Mgr, {}))
    /\ op' = [NoOp EXCEPT !.name = "stop", !.guarded = updatingCamera]
    /\ UNCHANGED counts

---------------------------------------------------------------------------
(* Registration of further recognizers (SpecAdd)                           *)

\* The allow-list each name is registered with.
AllowListOf(name) == IF name = "A" THEN {} ELSE {"A"}

\* map.handlers.add(name, handler, allowed); "mousePan" is already taken.
AddHandler ==
    \E name \in {"A", "B", "mousePan"} :
        LET res == add(Mgr, name, AllowListOf(name))
        IN  /\ Install(res.M)
            /\ op' = [NoOp EXCEPT !.name = "add", !.arg = name,
                                  !.threw = res.threw,
                                  !.enabledNew = res.enabled]
            /\ UNCHANGED counts

\* A wheel event, or a left press at the origin (which makes mousePan
\* active until stop() resets it).
AddEvents(oa, ob) ==
    {Event("wheel", NoPoint, NoButton, FALSE, FALSE, oa, ob),
     Event("mousedown", <<0, 0>>, LEFT_BUTTON, FALSE, FALSE, oa, ob)}

AddInput ==
    /\ \E oa \in ResponsesOf("A"), ob \in ResponsesOf("B") :
          \E e \in AddEvents(oa, ob) : Dispatch(e)
    /\ UNCHANGED counts

AddFrame ==
    /\ \E oa \in ResponsesOf("A"), ob \in ResponsesOf("B") :
          Frame(oa, ob, {}, FALSE)
    /\ UNCHANGED counts

NextAdd ==
    \/ AddHandler
    \/ AddInput
    \/ AddFrame
    \/ Stop

SpecAdd == Init /\ [][NextAdd]_vars

---------------------------------------------------------------------------
(* One mouse gesture: press, moves, release, with frames in between        *)
(* (SpecPan).  counts tallies the gesture's events and the lifecycle       *)
(* notifications published so far.                                         *)

PanPoints == Coord \X Coord

\* A press with the left button (pan) or the right one (rotate and pitch).
PanPress ==
    /\ counts.phase = "idle"
    /\ \E p \in PanPoints, b \in Buttons :
          /\ Dispatch(Event("mousedown", p, b, FALSE, FALSE,
                            NoResponse, NoResponse))
          /\ counts' = [counts EXCEPT !.phase = "pressed", !.button = b]

\* A move to another point: at least ClickTolerance away from the last one.
PanMove ==
    /\ counts.phase = "pressed"
    /\ counts.moves < MaxMoves
    /\ \E p \in PanPoints :
          /\ \E n \in MouseKinds :
                hs[n].lastPoint # NoPoint
                /\ Dist2(p, hs[n].lastPoint) >= ClickTolerance * ClickTolerance
          /\ Dispatch(Event("mousemove", p, NoButton, FALSE, FALSE,
                            NoResponse, NoResponse))
    /\ counts' = [counts EXCEPT !.moves = @ + 1]

PanRelease ==
    /\ counts.phase = "pressed"
    /\ Dispatch(Event("mouseup", NoPoint, counts.button, FALSE, FALSE,
                      NoResponse, NoResponse))
    /\ counts' = [counts EXCEPT !.phase = "released"]

RECURSIVE Count(_, _)
Count(seq, type) ==
    IF seq = <<>> THEN 0
    ELSE (IF seq[1] = type THEN 1 ELSE 0) + Count(Tail(seq), type)

\* Whether the queue holds the change of a move event of the gesture.
HoldsMove(queue) ==
    \E i \in 1..Len(queue) :
        queue[i].r.fields \cap {"panDelta", "bearingDelta", "pitchDelta"} # {}

\* The inertia tracker reports no momentum.
PanFrame ==
    /\ Frame(NoResponse, NoResponse, {}, FALSE)
    /\ counts' =
         [counts EXCEPT
            !.frames = @ + (IF HoldsMove(flushQueue(Mgr, NoResponse, NoResponse))
                            THEN 1 ELSE 0),
            !.movestart = @ + Count(log', "movestart"),
            !.dragstart = @ + Count(log', "dragstart"),
            !.move = @ + Count(log', "move"),
            !.drag = @ + Count(log', "drag"),
            !.dragend = @ + Count(log', "dragend"),
            !.moveend = @ + Count(log', "moveend")]

NextPan ==
    \/ PanPress
    \/ PanMove
    \/ PanRelease
    \/ PanFrame

SpecPan == Init /\ [][NextPan]_vars

---------------------------------------------------------------------------
(* Left-button input with a listener that calls stop() from a lifecycle    *)
(* notification (SpecListener)                                             *)

ListenerEvents ==
    {Event("mousedown", p, LEFT_BUTTON, FALSE, FALSE, NoResponse, NoResponse) :
        p \in Points}
    \cup {Event("mousemove", p, NoButton, FALSE, FALSE, NoResponse, NoResponse) :
            p \in Points}
    \cup {Event("mouseup", NoPoint, LEFT_BUTTON, FALSE, FALSE,
                NoResponse, NoResponse)}

ListenerInput ==
    /\ \E e \in ListenerEvents : Dispatch(e)
    /\ UNCHANGED counts

\* A frame during which the listener calls map.handlers.stop() at the
\* notifications of stopAt.
ListenerFrame ==
    /\ \E stopAt \in ListenerStops, ease \in BOOLEAN :
          Frame(NoResponse, NoResponse, stopAt, ease)
    /\ UNCHANGED counts

NextListener ==
    \/ ListenerInput
    \/ ListenerFrame

SpecListener == Init /\ [][NextListener]_vars

---------------------------------------------------------------------------
(* One left-button press, moves, release and click along a line, with the  *)
(* click tolerance an option of the constructor (SpecTol).  counts.path is *)
(* the sequence of points of the events dispatched so far.                 *)

ClickTolerances == {1, 2}

TolPoints == {<<x, 0>> : x \in 0..MaxReach}

\* new HandlerManager(map, {clickTolerance})
InitTol ==
    /\ handlers = DefaultHandlers
    /\ handlersById = {DefaultHandlers[i].name : i \in 1..Len(DefaultHandlers)}
    /\ \E t \in ClickTolerances :
          hs = [n \in AllNames |->
                  IF n \in handlersById
                  THEN [IdleHandler EXCEPT !.enabled = TRUE, !.clickTolerance = t]
                  ELSE IdleHandler]
    /\ previousActiveHandlers = {}
    /\ changes = <<>>
    /\ eventsInProgress = NoEip
    /\ frameId = FALSE
    /\ pendingFrames = 0
    /\ updatingCamera = FALSE
    /\ tr = InitTr
    /\ op = NoOp
    /\ pass = NoPass
    /\ log = <<>>
    /\ counts = NoCounts

TolEvent(type, p) ==
    Event(type, p, LEFT_BUTTON, FALSE, FALSE, NoResponse, NoResponse)

TolPress ==
    /\ counts.phase = "idle"
    /\ \E p \in TolPoints :
          /\ Dispatch(TolEvent("mousedown", p))
          /\ counts' = [counts EXCEPT !.phase = "pressed", !.path = <<p>>]

TolMove ==
    /\ counts.phase = "pressed"
    /\ counts.moves < MaxTolMoves
    /\ \E p \in TolPoints :
          /\ Dispatch(TolEvent("mousemove", p))
          /\ counts' = [counts EXCEPT !.moves = @ + 1, !.path = Append(@, p)]

TolRelease ==
    /\ counts.phase = "pressed"
    /\ Dispatch(TolEvent("mouseup", counts.path[Len(counts.path)]))
    /\ counts' = [counts EXCEPT !.phase = "released"]

\* The click the browser delivers after the release, at point p.
TolClick ==
    /\ counts.phase = "released"
    /\ \E p \in TolPoints :
          /\ Dispatch(TolEvent("click", p))
          /\ counts' = [counts EXCEPT !.phase = "clicked", !.path = Append(@, p)]

TolFrame ==
    /\ Frame(NoResponse, NoResponse, {}, FALSE)
    /\ UNCHANGED counts

NextTol ==
    \/ TolPress
    \/ TolMove
    \/ TolRelease
    \/ TolClick
    \/ TolFrame

SpecTol == InitTol /\ [][NextTol]_vars

---------------------------------------------------------------------------
(* One press and release of the secondary button, with the platform's      *)
(* contextmenu event between the two (counts.delivered = "between") or     *)
(* after the release ("after"); counts.contextmenu tallies the contextmenu *)
(* notifications published.                                                *)

CtxPress ==
    /\ counts.phase = "idle"
    /\ \E p \in PanPoints, pv \in BOOLEAN :
          Dispatch(Event("mousedown", p, RIGHT_BUTTON, FALSE, pv,
                         NoResponse, NoResponse))
    /\ counts' = [counts EXCEPT !.phase = "pressed", !.button = RIGHT_BUTTON]

CtxMenu ==
    /\ counts.phase \in {"pressed", "released"}
    /\ counts.delivered = ""
    /\ \E p \in PanPoints :
          Dispatch(Event("contextmenu", p, RIGHT_BUTTON, FALSE, FALSE,
                         NoResponse, NoResponse))
    /\ counts' = [counts EXCEPT
                    !.delivered = IF counts.phase = "pressed" THEN "between"
                                  ELSE "after",
                    !.contextmenu = @ + Count(log', "contextmenu")]

CtxMove ==
    /\ counts.phase = "pressed"
    /\ counts.moves < MaxMoves
    /\ \E p \in PanPoints :
          Dispatch(Event("mousemove", p, NoButton, FALSE, FALSE,
                         NoResponse, NoResponse))
    /\ counts' = [counts EXCEPT !.moves = @ + 1,
                                !.contextmenu = @ + Count(log', "contextmenu")]

CtxRelease ==
    /\ counts.phase = "pressed"
    /\ Dispatch(Event("mouseup", NoPoint, RIGHT_BUTTON, FALSE, FALSE,
                      NoResponse, NoResponse))
    /\ counts' = [counts EXCEPT !.phase = "released",
                                !.contextmenu = @ + Count(log', "contextmenu")]

CtxFrame ==
    /\ Frame(NoResponse, NoResponse, {}, FALSE)
    /\ counts' = [counts EXCEPT !.contextmenu = @ + Count(log', "contextmenu")]

NextCtx ==
    \/ CtxPress
    \/ CtxMenu
    \/ CtxMove
    \/ CtxRelease
    \/ CtxFrame

SpecCtx == Init /\ [][NextCtx]_vars

---------------------------------------------------------------------------
(* Recognizers on their own: one recognizer is constructed and its methods *)
(* are called directly, as the manager's loop calls them (only a method    *)
(* the class defines, only while isEnabled()).  hs holds that recognizer   *)
(* alone; op.e is the event of the call, pass.merged the object it         *)
(* returned, log the notifications it fired, counts.now the clock and      *)
(* counts.path the two touch points of the last touch-start that began a   *)
(* gesture.                                                                *)

AloneNames == MouseKinds \cup TouchKinds \cup {"mapEvent", "blockableMapEvent"}

Subject == CHOOSE n \in AloneNames : n \in DOMAIN hs

InitAlone ==
    /\ handlers = <<>>
    /\ handlersById = {}
    /\ \E n \in AloneNames :
          hs = [m \in {n} |-> IF n \in TouchKinds THEN IdleTouch ELSE IdleHandler]
    /\ previousActiveHandlers = {}
    /\ changes = <<>>
    /\ eventsInProgress = NoEip
    /\ frameId = FALSE
    /\ pendingFrames = 0
    /\ updatingCamera = FALSE
    /\ tr = InitTr
    /\ op = NoOp
    /\ pass = NoPass
    /\ log = <<>>
    /\ counts = NoCounts

\* The second finger of a zoom or rotate gesture rests at RotBase, the
\* first one is a RotVector away from it.
RotBase == <<0, 28>>
RotPairs == {<<Point_add(v, RotBase), RotBase>> : v \in RotVectors}

\* Two fingers of a pitch gesture: side by side or one above the other,
\* each still, moved down or moved sideways.
PitchPairs ==
    {<<a, b>> : a \in {<<0, 0>>, <<0, 2>>, <<1, 0>>},
                b \in {<<4, 0>>, <<4, 2>>, <<0, 4>>, <<0, 6>>}}

TouchPairs(kind) == IF kind = "touchPitch" THEN PitchPairs ELSE RotPairs

\* e.targetTouches: both fingers, the first one only, or none.
TouchLists(kind) ==
    {<< [id |-> 1, p |-> pr[1]], [id |-> 2, p |-> pr[2]] >> :
        pr \in TouchPairs(kind)}
    \cup {<< [id |-> 1, p |-> pr[1]] >> : pr \in TouchPairs(kind)}
    \cup {<<>>}

TouchEvent(type, touches, timeStamp) ==
    [type |-> type, point |-> NoPoint, button |-> NoButton, ctrlKey |-> FALSE,
     prevented |-> FALSE, touches |-> touches, timeStamp |-> timeStamp]

AloneMouseEvents ==
    {Event(t, p, b, c, pv, NoResponse, NoResponse) :
        t \in {"mousedown", "mousemove", "mouseup", "contextmenu", "click"},
        p \in Points, b \in Buttons, c \in BOOLEAN, pv \in BOOLEAN}

AloneCall(n, e) ==
    /\ isEnabled(Kind(n), hs[n])
    /\ Handles(Kind(n), e.type)
    /\ LET ret == Callback(n, hs[n], e)
       IN  /\ hs' = [hs EXCEPT ![n] = ret.h]
           /\ op' = [NoOp EXCEPT !.name = "call", !.arg = n, !.e = e,
                                 !.threw = "threw" \in DOMAIN ret,
                                 !.wasActive = handlerIsActive(Kind(n), hs[n])]
           /\ pass' = [NoPass EXCEPT !.ran = TRUE, !.type = e.type,
                                     !.dispatched = IF ret.data THEN {n} ELSE {},
                                     !.merged = ret.r]
           /\ log' = ret.fired
    /\ UNCHANGED <<handlers, handlersById, previousActiveHandlers, changes,
                   eventsInProgress, frameId, pendingFrames, updatingCamera, tr>>

AloneMouse ==
    /\ Subject \notin TouchKinds
    /\ \E e \in AloneMouseEvents : AloneCall(Subject, e)
    /\ UNCHANGED counts

\* The clock only matters to the pitch recognizer.
AloneTouch ==
    /\ Subject \in TouchKinds
    /\ \E type \in {"touchstart", "touchmove", "touchend"},
          touches \in TouchLists(Subject),
          dt \in {0, ALLOWED_SINGLE_TOUCH_TIME} :
          /\ dt = 0 \/ Subject = "touchPitch"
          /\ counts.now + dt <= MaxClock
          /\ AloneCall(Subject, TouchEvent(type, touches, counts.now + dt))
          /\ counts' =
               [counts EXCEPT
                  !.now = @ + dt,
                  !.path = IF hs[Subject].firstTwoTouches = NoTouches
                              /\ hs'[Subject].firstTwoTouches # NoTouches
                           THEN <<touches[1].p, touches[2].p>> ELSE @]

AloneReset ==
    /\ hs' = [hs EXCEPT ![Subject] = reset(Kind(Subject), @)]
    /\ op' = [NoOp EXCEPT !.name = "reset", !.arg = Subject,
                          !.wasActive = handlerIsActive(Kind(Subject), hs[Subject])]
    /\ pass' = NoPass
    /\ log' = <<>>
    /\ UNCHANGED <<handlers, handlersById, previousActiveHandlers, changes,
                   eventsInProgress, frameId, pendingFrames, updatingCamera, tr,
                   counts>>

AloneEnable ==
    /\ Subject \notin {"mapEvent", "blockableMapEvent"}
    /\ hs' = [hs EXCEPT ![Subject] = enable(Kind(Subject), @)]
    /\ op' = [NoOp EXCEPT !.name = "enable", !.arg = Subject]
    /\ pass' = NoPass
    /\ log' = <<>>
    /\ UNCHANGED <<handlers, handlersById, previousActiveHandlers, changes,
                   eventsInProgress, frameId, pendingFrames, updatingCamera, tr,
                   counts>>

AloneDisable ==
    /\ Subject \notin {"mapEvent", "blockableMapEvent"}
    /\ hs' = [hs EXCEPT ![Subject] =
                 IF Subject \in TouchKinds
                 THEN TwoTouchHandler_disable(Subject, @)
                 ELSE MouseHandler_disable(@)]
    /\ op' = [NoOp EXCEPT !.name = "disable", !.arg = Subject]
    /\ pass' = NoPass
    /\ log' = <<>>
    /\ UNCHANGED <<handlers, handlersById, previousActiveHandlers, changes,
                   eventsInProgress, frameId, pendingFrames, updatingCamera, tr,
                   counts>>

NextAlone ==
    \/ AloneMouse
    \/ AloneTouch
    \/ AloneReset
    \/ AloneEnable
    \/ AloneDisable

SpecAlone == InitAlone /\ [][NextAlone]_vars

---------------------------------------------------------------------------
(* Raw input whose notification a listener may default-prevent (SpecVeto). *)
(* The manager is constructed with the two-touch rotate and zoom           *)
(* recognizers of touch_zoom_rotate.js in their place of registration;     *)
(* op.e is the event dispatched.                                           *)

\* A registration order with the blockable map-event recognizer first.
VetoHandlers_blockableFirst ==
    << [name |-> "blockableMapEvent", allowed |-> {}],
       [name |-> "mapEvent", allowed |-> {}],
       [name |-> "mouseRotate", allowed |-> {"mousePitch"}],
       [name |-> "mousePitch", allowed |-> {"mouseRotate"}],
       [name |-> "mousePan", allowed |-> {}],
       [name |-> "touchRotate", allowed |-> {"touchPan", "touchZoom"}],
       [name |-> "touchZoom", allowed |-> {"touchPan", "touchRotate"}] >>

VetoHandlers ==
    << [name |-> "mapEvent", allowed |-> {}],
       [name |-> "mouseRotate", allowed |-> {"mousePitch"}],
       [name |-> "mousePitch", allowed |-> {"mouseRotate"}],
       [name |-> "mousePan", allowed |-> {}],
       [name |-> "touchRotate", allowed |-> {"touchPan", "touchZoom"}],
       [name |-> "touchZoom", allowed |-> {"touchPan", "touchRotate"}],
       [name |-> "blockableMapEvent", allowed |-> {}] >>

InitVeto ==
    /\ handlers = VetoHandlers
    /\ handlersById = {VetoHandlers[i].name : i \in 1..Len(VetoHandlers)}
    /\ hs = [n \in AllNames \cup {"touchRotate", "touchZoom"} |->
               IF n \in {"touchRotate", "touchZoom"}
               THEN [IdleTouch EXCEPT !.enabled = TRUE]
               ELSE IF n \in handlersById
               THEN [IdleHandler EXCEPT !.enabled = TRUE]
               ELSE IdleHandler]
    /\ previousActiveHandlers = {}
    /\ changes = <<>>
    /\ eventsInProgress = NoEip
    /\ frameId = FALSE
    /\ pendingFrames = 0
    /\ updatingCamera = FALSE
    /\ tr = InitTr
    /\ op = NoOp
    /\ pass = NoPass
    /\ log = <<>>
    /\ counts = NoCounts

\* The notifications the map-event recognizers re-publish.
RawTypes ==
    {"click", "dblclick", "contextmenu", "mousedown", "mouseup", "mouseover",
     "mouseout", "touchstart", "touchend", "touchcancel"}

VetoPairs == {pr \in RotPairs : pr[1][2] \in {28, 88}}

VetoTouches ==
    {<< [id |-> 1, p |-> pr[1]], [id |-> 2, p |-> pr[2]] >> : pr \in VetoPairs}

VetoEvents ==
    {Event(t, p, LEFT_BUTTON, FALSE, pv, NoResponse, NoResponse) :
        t \in {"mousedown", "click"}, p \in Points, pv \in BOOLEAN}
    \cup {Event("mousemove", p, NoButton, FALSE, FALSE, NoResponse, NoResponse) :
            p \in Points}
    \cup {Event(t, NoPoint, LEFT_BUTTON, FALSE, pv, NoResponse, NoResponse) :
            t \in {"mouseup", "dblclick", "contextmenu", "mouseover", "mouseout"},
            pv \in BOOLEAN}
    \cup {[TouchEvent("touchstart", touches, 0) EXCEPT !.prevented = pv] :
            touches \in VetoTouches, pv \in BOOLEAN}
    \cup {TouchEvent("touchmove", touches, 0) : touches \in VetoTouches}
    \cup {[TouchEvent(t, <<>>, 0) EXCEPT !.prevented = pv] :
            t \in {"touchend", "touchcancel"}, pv \in BOOLEAN}

\* The events of one scenario are all of the mouse or all of touch.
FamilyOf(e) == IF "touches" \in DOMAIN e THEN "touch" ELSE "mouse"

VetoInput ==
    \E e \in VetoEvents :
        /\ counts.phase \in {"idle", FamilyOf(e)}
        /\ LET M == processInputEvent([Mgr EXCEPT !.updating = TRUE], e)
           IN  /\ Len(M.changes) <= MaxChanges
               /\ Install(M)
               /\ op' = [NoOp EXCEPT !.name = "dispatch", !.e = e]
        /\ counts' = [counts EXCEPT !.phase = FamilyOf(e)]

VetoFrame ==
    /\ Frame(NoResponse, NoResponse, {}, FALSE)
    /\ UNCHANGED counts

NextVeto ==
    \/ VetoInput
    \/ VetoFrame

SpecVeto == InitVeto /\ [][NextVeto]_vars

---------------------------------------------------------------------------
(* Animated and unanimated changes in one queue (SpecEase): the opaque     *)
(* recognizer "A" is added and answers wheel events with a zoom step (as a *)
(* scroll-zoom recognizer does), or with an animated zoom or rotation (as  *)
(* a keyboard recognizer does); the mouse pans.                            *)

EaseDuration == 300

EaseResponses ==
    {NoResponse,
     [active |-> TRUE, data |-> TRUE,
      r |-> [EmptyResult EXCEPT !.fields = {"zoomDelta"}, !.zoomDelta = 1]],
     [active |-> FALSE, data |-> TRUE,
      r |-> [EmptyResult EXCEPT !.fields = {"zoomDelta", "duration"},
                                !.zoomDelta = 1, !.duration = EaseDuration]],
     [active |-> FALSE, data |-> TRUE,
      r |-> [EmptyResult EXCEPT !.fields = {"bearingDelta", "duration"},
                                !.bearingDelta = 8, !.duration = EaseDuration]]}

EaseAdd ==
    LET res == add(Mgr, "A", {})
    IN  /\ Install(res.M)
        /\ op' = [NoOp EXCEPT !.name = "add", !.arg = "A", !.threw = res.threw,
                              !.enabledNew = res.enabled]
        /\ UNCHANGED counts

EaseEvents(oa) ==
    {Event("wheel", NoPoint, NoButton, FALSE, FALSE, oa, NoResponse),
     Event("mousedown", <<0, 0>>, LEFT_BUTTON, FALSE, FALSE, NoResponse, NoResponse),
     Event("mousemove", <<1, 1>>, NoButton, FALSE, FALSE, NoResponse, NoResponse),
     Event("mouseup", NoPoint, LEFT_BUTTON, FALSE, FALSE, NoResponse, NoResponse)}

EaseInput ==
    /\ \E oa \in (IF "A" \in handlersById THEN EaseResponses ELSE {NoResponse}) :
          \E e \in EaseEvents(oa) : Dispatch(e)
    /\ UNCHANGED counts

EaseFrame ==
    /\ Frame(NoResponse, NoResponse, {}, FALSE)
    /\ UNCHANGED counts

NextEase ==
    \/ EaseAdd
    \/ EaseInput
    \/ EaseFrame

SpecEase == Init /\ [][NextEase]_vars

---------------------------------------------------------------------------
(* The constructed manager under pointer input (Spec) *)

Next ==
    \/ MouseInput
    \/ OtherInput
    \/ InputEventNoTimeStamp
    \/ RenderFrame
    \/ Stop

Spec == Init /\ [][Next]_vars

---------------------------------------------------------------------------
(* Properties of the constructed manager under pointer input (Spec) *)

DeltaFields == {"panDelta", "zoomDelta", "bearingDelta", "pitchDelta"}

InLog(type) == \E i \in 1..Len(log) : log[i] = type

\* C3: when a listener default-prevents the notification the map-event
\* recognizer publishes for a mousedown, touchstart, dblclick or wheel event,
\* the map-event recognizer returns an (empty) result and so is in the
\* active set, every other enabled recognizer is reset and receives nothing,
\* and the merged result of the pass carries no pan/zoom/bearing/pitch delta.
C3_PreventedResetsOthers ==
    (pass.ran /\ pass.type \in PreventableTypes /\ pass.prevented) =>
        /\ "mapEvent" \in pass.dispatched
        /\ "mapEvent" \in previousActiveHandlers
        /\ \A n \in handlersById \ {"mapEvent"} :
              isEnabled(Kind(n), hs[n]) =>
                  /\ n \in pass.resetSet
                  /\ n \notin pass.dispatched
                  /\ hs[n] = reset(Kind(n), hs[n])
        /\ pass.merged.fields \cap DeltaFields = {}
        /\ ~hasChange(pass.merged)

\* A prevented mousedown that took the active pan recognizer out of the
\* active set (so the pass queued a change without any delta).
C3_Witness ==
    /\ pass.ran /\ pass.type = "mousedown" /\ pass.prevented
    /\ pass.resetSet = handlersById \ {"mapEvent"}
    /\ pass.pushed
    /\ previousActiveHandlers = {"mapEvent"}

\* C4: at most one render-frame callback is pending at any time, and one is
\* pending exactly when _frameId is set, however many changes were queued
\* since the last frame.
C4_OneFramePending ==
    /\ pendingFrames <= 1
    /\ frameId <=> (pendingFrames = 1)

\* Two changes queued behind a single pending callback.
C4_Witness ==
    /\ Len(changes) = MaxChanges
    /\ pendingFrames = 1
    /\ op.name = "dispatch"

\* C7: after a stop() that found the manager not mid-update, no registered
\* recognizer is active, the change queue is empty and no axis is in
\* progress.
C7_StopClearsAll ==
    (op.name = "stop" /\ ~op.guarded) =>
        /\ \A n \in handlersById : ~handlerIsActive(Kind(n), hs[n])
        /\ changes = <<>>
        /\ eventsInProgress = NoEip

\* A stop() that ended a drag in progress.
C7_Witness ==
    /\ op.name = "stop" /\ ~op.guarded
    /\ InLog("dragend") /\ InLog("moveend")

\* C10: only the render-frame callback changes the camera transform; a
\* dispatch (and stop()) leaves it as the last flush left it.
C10_TransformOnlyInFrame ==
    [][op'.name # "renderFrame" => tr' = tr]_vars

\* A dispatch that queued a delta after an earlier flush had moved the
\* camera.
C10_Witness ==
    /\ op.name = "dispatch"
    /\ pass.pushed /\ hasChange(pass.merged)
    /\ tr # InitTr

---------------------------------------------------------------------------
(* Properties of registration and arbitration (SpecAdd) *)

Before(a, b) ==
    \E i, j \in 1..Len(handlers) :
        i < j /\ handlers[i].name = a /\ handlers[j].name = b

\* C1 as stated: with A (empty allow-list) registered before B (allow-list
\* [A]), whenever A is in the active set when B's turn comes, B is reset and
\* the event is not dispatched to B in that pass.
C1_Original ==
    (pass.ran /\ Before("A", "B") /\ "A" \in pass.activeAt["B"]) =>
        ("B" \in pass.resetSet /\ "B" \notin pass.dispatched)

\* C1: with A (empty allow-list) registered before B (allow-list [A]),
\* whenever A is in the active set when B's turn comes and no recognizer
\* outside B's allow-list is, B is not reset and the event is dispatched to
\* B in that pass: A is on B's allow-list and does not block it.
C1_AllowedDoesNotBlock ==
    (pass.ran /\ Before("A", "B") /\ "A" \in pass.activeAt["B"]
       /\ pass.activeAt["B"] \subseteq {"A", "B"}) =>
        ("B" \notin pass.resetSet /\ "B" \in pass.dispatched)

\* A pass in which A answered with a result and B, after it, answered too.
C1_Witness ==
    /\ pass.ran /\ Before("A", "B")
    /\ "A" \in pass.activeAt["B"]
    /\ "B" \in pass.dispatched
    /\ previousActiveHandlers = {"A", "B"}

\* C2: with B (allow-list [A]) registered before A (empty allow-list),
\* whenever B is in the active set when A's turn comes, A is reset and the
\* event is not dispatched to A in that pass.
C2_ReverseOrderResetsA ==
    (pass.ran /\ Before("B", "A") /\ "B" \in pass.activeAt["A"]) =>
        /\ "A" \in pass.resetSet
        /\ "A" \notin pass.dispatched
        /\ ~hs["A"].active
        /\ "A" \notin previousActiveHandlers

\* A pass in which B alone was in the active set at the turn of A, A was
\* reset, and a change was queued.
C2_Witness ==
    /\ pass.ran /\ Before("B", "A")
    /\ pass.activeAt["A"] = {"B"}
    /\ "A" \in pass.resetSet
    /\ pass.pushed

\* C9: add() of a name that is already registered throws and leaves the
\* manager as it was: the registration list, the name map, every registered
\* recognizer and the rest of the manager's state are unchanged, and
\* enable() is not called on the recognizer passed in.
C9_DuplicateAddThrows ==
    [][(op'.name = "add" /\ op'.arg \in handlersById) =>
          /\ op'.threw /\ ~op'.enabledNew
          /\ UNCHANGED <<handlers, handlersById, hs, previousActiveHandlers,
                         changes, eventsInProgress, frameId, pendingFrames,
                         updatingCamera, tr>>]_vars

\* A refused second add of A while A is active and a change is queued.
C9_Witness ==
    /\ op.name = "add" /\ op.arg = "A" /\ op.threw
    /\ hs["A"].active
    /\ changes # <<>>

---------------------------------------------------------------------------
(* Properties of frame application and of one gesture (SpecPan) *)

RECURSIVE SumPan(_), SumBearing(_), SumPitch(_), SumZoom(_)
SumPan(queue) ==
    IF queue = <<>> THEN <<0, 0>>
    ELSE Point_add(queue[1].r.panDelta, SumPan(Tail(queue)))

SumBearing(queue) ==
    IF queue = <<>> THEN 0 ELSE queue[1].r.bearingDelta + SumBearing(Tail(queue))

SumPitch(queue) ==
    IF queue = <<>> THEN 0 ELSE queue[1].r.pitchDelta + SumPitch(Tail(queue))

SumZoom(queue) ==
    IF queue = <<>> THEN 0 ELSE queue[1].r.zoomDelta + SumZoom(Tail(queue))

\* The transform t moved by the plain sums of the deltas of the queue.
MovedBySums(t, queue) ==
    [center |-> <<(t.center[1] - SumPan(queue)[1]) % TrMod,
                  (t.center[2] - SumPan(queue)[2]) % TrMod>>,
     bearing |-> (t.bearing + SumBearing(queue)) % (8 * TrMod),
     pitch |-> (t.pitch + SumPitch(queue)) % (5 * TrMod),
     zoom |-> (t.zoom + SumZoom(queue)) % TrMod]

PanDone ==
    /\ counts.phase = "released"
    /\ counts.button = LEFT_BUTTON
    /\ counts.moves >= 1
    /\ pendingFrames = 0

\* C6 as stated: one pan gesture of N >= 1 qualifying moves publishes one
\* movestart, one dragstart, N move and N drag notifications, one dragend
\* and one moveend, however the moves fall into render frames.
C6_Original ==
    PanDone =>
        /\ counts.movestart = 1 /\ counts.dragstart = 1
        /\ counts.move = counts.moves /\ counts.drag = counts.moves
        /\ counts.dragend = 1 /\ counts.moveend = 1

\* C6: one pan gesture of N >= 1 qualifying moves, the inertia tracker
\* reporting no momentum, publishes exactly one movestart and one dragstart,
\* one move and one drag per render frame that flushed at least one of its
\* moves (between 1 and N frames), and exactly one dragend followed by
\* exactly one moveend, both after the release; nothing is published
\* before the first such frame.
C6_PanLifecyclePerFrame ==
    /\ PanDone =>
          /\ counts.movestart = 1 /\ counts.dragstart = 1
          /\ counts.frames >= 1 /\ counts.frames <= counts.moves
          /\ counts.move = counts.frames /\ counts.drag = counts.frames
          /\ counts.dragend = 1 /\ counts.moveend = 1
    /\ counts.button = LEFT_BUTTON =>
          /\ counts.movestart = (IF counts.frames >= 1 THEN 1 ELSE 0)
          /\ counts.dragstart = counts.movestart
          /\ counts.move = counts.frames /\ counts.drag = counts.frames
          /\ counts.dragend = counts.moveend
          /\ counts.dragend <= counts.movestart
          /\ counts.dragend = 1 => counts.phase = "released"
          /\ InLog("dragend") =>
                /\ Len(log) >= 2
                /\ log[Len(log) - 1] = "dragend"
                /\ log[Len(log)] = "moveend"

\* A finished pan gesture of two moves that were flushed by one frame.
C6_Witness ==
    /\ PanDone
    /\ counts.moves = 2 /\ counts.frames = 1
    /\ counts.move = 1 /\ counts.drag = 1

---------------------------------------------------------------------------
(* Properties of stop() called from a listener (SpecListener) *)

\* C8: a stop() that a listener calls from a notification raised during
\* frame application is a no-op: the frame leaves the recognizers, the axes
\* in progress and the queue, and publishes the notifications, exactly as
\* the same frame does when the listener does not call stop().
C8_ListenerStopIsNoOp ==
    [][op'.name = "renderFrame" =>
          LET quiet == frameCallback(Mgr, NoResponse, NoResponse, {}, op'.ease)
          IN  /\ hs' = quiet.hs
              /\ eventsInProgress' = quiet.eip
              /\ changes' = quiet.changes
              /\ log' = quiet.log]_vars

---------------------------------------------------------------------------
(* Properties of the pan recognizer and of click detection (SpecTol) *)

Tol2 == hs["mousePan"].clickTolerance * hs["mousePan"].clickTolerance

\* The pass of the last move of a press at P0 followed by two moves, the
\* first of them closer to P0 than the tolerance.
AfterSuppressedMove ==
    /\ counts.phase = "pressed" /\ counts.moves = 2
    /\ op.name = "dispatch" /\ pass.type = "mousemove"
    /\ Dist2(counts.path[1], counts.path[2]) < Tol2

\* C11 as stated: after a press at P0 and a move to P1 closer than the
\* tolerance, a move to P2 with dist(P1, P2) >= tolerance returns
\* panDelta = P2 - P1 and leaves the recognizer active.
C11_Original ==
    (AfterSuppressedMove
       /\ Dist2(counts.path[2], counts.path[3]) >= Tol2) =>
        /\ "panDelta" \in pass.merged.fields
        /\ pass.merged.panDelta = Point_sub(counts.path[3], counts.path[2])
        /\ hs["mousePan"].active

\* C11: after an accepted press at P0, a move to P1 with dist(P0, P1) <
\* tolerance returns no result and is not remembered; a further move to P2
\* returns a result when dist(P0, P2) >= tolerance, and then panDelta =
\* P2 - P0 and isActive() is true; when dist(P0, P2) < tolerance it returns
\* no result either.
C11_PanMeasuresFromPress ==
    /\ (counts.phase = "pressed" /\ counts.moves = 1
          /\ op.name = "dispatch" /\ pass.type = "mousemove"
          /\ Dist2(counts.path[1], counts.path[2]) < Tol2) =>
            /\ "panDelta" \notin pass.merged.fields
            /\ hs["mousePan"].lastPoint = counts.path[1]
    /\ AfterSuppressedMove =>
          IF Dist2(counts.path[1], counts.path[3]) >= Tol2
          THEN /\ "panDelta" \in pass.merged.fields
               /\ pass.merged.panDelta =
                     Point_sub(counts.path[3], counts.path[1])
               /\ hs["mousePan"].active
          ELSE "panDelta" \notin pass.merged.fields

\* Tolerance 2, press at (0,0), a move to (1,0) and a move to (3,0), two
\* pixels from the point of the suppressed move, that returned (3,0).
C11_Witness ==
    /\ AfterSuppressedMove
    /\ counts.path[1] # counts.path[2]
    /\ Dist2(counts.path[2], counts.path[3]) >= Tol2
    /\ pass.merged.panDelta = Point_sub(counts.path[3], counts.path[1])
    /\ pass.merged.panDelta # Point_sub(counts.path[3], counts.path[2])


---------------------------------------------------------------------------
(* Properties of SpecAlone *)

\* C12: for every recognizer (mouse pan, rotate and pitch; touch zoom,
\* rotate and pitch; map-event and blockable map-event) and from every
\* state it can reach, isActive() is false right after reset().
C12_ResetLeavesInactive ==
    op.name = "reset" => ~handlerIsActive(Kind(op.arg), hs[op.arg])

\* An active recognizer has been reset.
C12_Witness ==
    /\ op.name = "reset"
    /\ op.wasActive
    /\ op.arg \in TouchKinds
    /\ ~hs[op.arg].active

---------------------------------------------------------------------------
(* Properties of SpecTol: the click *)

ClickTol2 == hs["mapEvent"].clickTolerance * hs["mapEvent"].clickTolerance

\* The click that follows a press and a release has been dispatched.
AfterClick ==
    /\ counts.phase = "clicked"
    /\ op.name = "dispatch"
    /\ pass.type = "click"
    /\ hs["mapEvent"].mouseDownPos # NoPoint

\* C14: the map-event recognizer publishes a click only when the distance
\* between the recorded pointer-down position and the click position is
\* strictly less than the click tolerance; at or beyond it, no click.
C14_ClickOnlyBelowTolerance ==
    AfterClick =>
        (InLog("click") <=>
            Dist2(hs["mapEvent"].mouseDownPos,
                  counts.path[Len(counts.path)]) < ClickTol2)

\* What the code does: the click is published up to and at the tolerance.
C14_ClickUpToTolerance ==
    AfterClick =>
        (InLog("click") <=>
            Dist2(hs["mapEvent"].mouseDownPos,
                  counts.path[Len(counts.path)]) <= ClickTol2)

\* A click exactly at the tolerance from the press has been published.
C14_AtTolerance ==
    /\ AfterClick
    /\ InLog("click")
    /\ Dist2(hs["mapEvent"].mouseDownPos,
             counts.path[Len(counts.path)]) = ClickTol2

---------------------------------------------------------------------------
(* Properties of SpecCtx *)

\* The press has been released and the contextmenu event delivered.
CtxDone == counts.phase = "released" /\ counts.delivered # ""

\* C13: for one secondary-button press and release, the blockable map-event
\* recognizer publishes contextmenu exactly once, deferred to the release
\* when the event comes between press and release and at once when it comes
\* after the release, whatever else happens between press and release.
C13_ContextMenuOnce ==
    /\ CtxDone => counts.contextmenu = 1
    /\ (counts.phase = "pressed" /\ counts.delivered = "between")
          => counts.contextmenu = 0

\* What the code does when the pointer is not moved between press and
\* release: the notification is published once.
C13_OnceWithoutMove ==
    (CtxDone /\ counts.moves = 0) => counts.contextmenu = 1

\* The deferred contextmenu was dropped: a move made the rotate recognizer
\* active, the blockable recognizer was reset, the release published nothing.
C13_Lost ==
    /\ CtxDone
    /\ counts.delivered = "between"
    /\ counts.contextmenu = 0

---------------------------------------------------------------------------
(* Properties of SpecVeto *)

GestureNames == MouseKinds \cup TouchKinds

\* A raw event whose notification a listener default-prevented has been
\* dispatched.
AfterPrevented ==
    /\ op.name = "dispatch"
    /\ op.e # <<>>
    /\ op.e.type \in RawTypes
    /\ op.e.prevented

C15_WitnessVeto ==
    /\ AfterPrevented
    /\ op.e.type = "touchstart"
    /\ pass.resetSet = handlersById \ {"mapEvent"}

---------------------------------------------------------------------------
(* Properties of SpecEase *)

\* The queue a frame applies: this._changes after the frame's own pass.
FrameQueue == flushQueue(Mgr, NoResponse, NoResponse)

\* C16: in frame application, a queued change that carries an animation
\* duration clears everything accumulated from the changes before it: the
\* combined result holds only the deltas and the axis ownership of that
\* change and of the changes after it.
C16_AnimatedChangeClears ==
    [][op'.name = "renderFrame"
         => \A i \in 1..Len(FrameQueue) :
               Truthy(FrameQueue[i].r, "duration")
                  => Combined(FrameQueue)
                       = Combined(SubSeq(FrameQueue, i, Len(FrameQueue)))]_vars

\* What the code does: an animated change clears what was accumulated only
\* when an animated change came before it.
C16_ClearsAfterAnimatedOnly ==
    [][op'.name = "renderFrame"
         => \A i \in 2..Len(FrameQueue) :
               Truthy(FrameQueue[i].r, "duration")
                  => IF \E j \in 1..(i - 1) : Truthy(FrameQueue[j].r, "duration")
                     THEN Combined(FrameQueue)
                            = Combined(SubSeq(FrameQueue, i, Len(FrameQueue)))
                     ELSE Combined(SubSeq(FrameQueue, 1, i)).combined.fields
                            = UNION {{f \in FrameQueue[j].r.fields :
                                         Truthy(FrameQueue[j].r, f)} :
                                     j \in 1..i} \ {"needsRenderFrame"}]_vars

\* A frame has eased the camera by an unanimated zoom step and the animated
\* rotation queued after it.
C16_MixedEase ==
    /\ op.name = "renderFrame"
    /\ op.flushed = 2
    /\ InLog("easeTo")
    /\ changes = <<>>

---------------------------------------------------------------------------
(* Properties of SpecAlone: the two-touch recognizers *)

\* A touch-move of a gesture in progress has been handed to the recognizer.
AfterTouchMove(name) ==
    /\ op.name = "call"
    /\ op.arg = name
    /\ op.e.type = "touchmove"
    /\ hs[name].firstTwoTouches # NoTouches

InitialVector == Point_sub(counts.path[1], counts.path[2])

\* C17: two-finger pitch: when at touch-start the vector between the two
\* touch points is not more vertical than horizontal (|dy| <= |dx|), no
\* touch-move of the gesture returns a pitchDelta; a pitch result only comes
\* from a gesture whose initial two-finger vector is more vertical.
C17_PitchOnlyFromVerticalStart ==
    (AfterTouchMove("touchPitch") /\ "pitchDelta" \in pass.merged.fields)
        => isVertical(InitialVector)

\* What the code does: a pitch result only comes from a gesture whose
\* initial two-finger vector is not more vertical than horizontal.
C17_PitchOnlyFromSideBySide ==
    (AfterTouchMove("touchPitch") /\ "pitchDelta" \in pass.merged.fields)
        => ~isVertical(InitialVector)

\* Two fingers side by side, both moved down, have pitched the map.
C17_SideBySidePitch ==
    /\ AfterTouchMove("touchPitch")
    /\ pass.merged.fields = {"pitchDelta"}
    /\ pass.merged.pitchDelta = 0 - 10
    /\ InitialVector = <<0 - 4, 0>>
    /\ hs["touchPitch"].active

RotateKinds == {"touchRotate", "touchRotateAlone"}

\* The vector between the two tracked touches of event e.
TrackedVector(h, e) ==
    Point_sub(getTouchesById(e, h.firstTwoTouches)[1],
              getTouchesById(e, h.firstTwoTouches)[2])

\* The step hands a touch-move that contains both tracked touches to a
\* rotate recognizer that has a gesture in progress.
RotateMoveStep ==
    /\ op'.name = "call"
    /\ op'.arg \in RotateKinds
    /\ op'.e.type = "touchmove"
    /\ hs[op'.arg].firstTwoTouches # NoTouches
    /\ getTouchesById(op'.e, hs[op'.arg].firstTwoTouches)[1] # NoPoint
    /\ getTouchesById(op'.e, hs[op'.arg].firstTwoTouches)[2] # NoPoint

\* C18: two-finger rotate: while the recognizer is not active, a touch-move
\* whose bearing change since the gesture's start is below the threshold
\* returns no result and leaves it inactive; the first touch-move that
\* exceeds the threshold returns a bearingDelta and makes it active; from
\* then on every touch-move that contains both tracked touches returns a
\* result, also when the cumulative bearing change falls back under the
\* threshold, until the gesture ends.
C18_RotateThreshold ==
    [][RotateMoveStep =>
         LET n == op'.arg
             vector == TrackedVector(hs[n], op'.e)
             minDiameter == IF Mag(vector) < hs[n].minDiameter
                            THEN Mag(vector) ELSE hs[n].minDiameter
             below ==
                 Abs(AngleOf(hs[n].startVector) - AngleOf(vector))
                     * minDiameter * 355 < THRESHOLD * 360 * 10 * 113
         IN  IF ~hs[n].active /\ below
             THEN /\ pass'.dispatched = {}
                  /\ ~hs'[n].active
             ELSE /\ pass'.dispatched = {n}
                  /\ hs'[n].active
                  /\ pass'.merged.fields = {"bearingDelta"}
                  /\ pass'.merged.bearingDelta
                       = AngleOf(hs[n].vector) - AngleOf(vector)]_vars

\* An active rotate recognizer has returned a result for a move back to the
\* direction the gesture started with.
C18_Witness ==
    /\ AfterTouchMove("touchRotate")
    /\ op.wasActive
    /\ hs["touchRotate"].active
    /\ hs["touchRotate"].vector = hs["touchRotate"].startVector
    /\ pass.dispatched = {"touchRotate"}
    /\ pass.merged.bearingDelta # 0

---------------------------------------------------------------------------
(* Properties of SpecAdd: the direction of blocking *)

AllowedOf(name) ==
    handlers[CHOOSE i \in 1..Len(handlers) : handlers[i].name = name].allowed

\* C19: blocking flows only from earlier to later registrations: in a
\* dispatch pass a recognizer is reset or skipped only because of a
\* recognizer registered before it, never because of one registered after
\* it that becomes active in that pass.
C19_BlockedOnlyByEarlier ==
    pass.ran =>
        \A n \in OpaqueNames \cap handlersById :
            /\ \A m \in pass.activeAt[n] : Before(m, n)
            /\ IF \E m \in pass.activeAt[n] :
                      Before(m, n) /\ m \notin AllowedOf(n)
               THEN n \in pass.resetSet /\ n \notin pass.dispatched
               ELSE n \notin pass.resetSet /\ n \in pass.dispatched

\* B, registered after A and not on A's allow-list, became active in a
\* pass in which A, not active itself, was dispatched to and not reset.
C19_Witness ==
    /\ pass.ran
    /\ Before("A", "B")
    /\ "B" \in previousActiveHandlers
    /\ "A" \notin previousActiveHandlers
    /\ "A" \in pass.dispatched
    /\ "A" \notin pass.resetSet
    /\ "B" \notin AllowedOf("A")

---------------------------------------------------------------------------
(* Properties of SpecListener: the end of a dispatch pass *)

NonzeroDelta(r) ==
    \/ ("panDelta" \in r.fields /\ r.panDelta # <<0, 0>>)
    \/ ("zoomDelta" \in r.fields /\ r.zoomDelta # 0)
    \/ ("bearingDelta" \in r.fields /\ r.bearingDelta # 0)
    \/ ("pitchDelta" \in r.fields /\ r.pitchDelta # 0)

\* C20: after a dispatch pass a change is pushed onto the change queue, and
\* a render frame requested if none is pending, if and only if a recognizer
\* of the previous event's active set is absent from the new active set or
\* the merged result carries a nonzero pan, zoom, bearing or pitch delta;
\* otherwise the queue is left unchanged.
C20_PushIffChanged ==
    [][(op'.name = "dispatch" /\ ~op'.threw) =>
         IF (\E n \in previousActiveHandlers : n \notin previousActiveHandlers')
            \/ NonzeroDelta(pass'.merged)
         THEN /\ Len(changes') = Len(changes) + 1
              /\ SubSeq(changes', 1, Len(changes)) = changes
              /\ changes'[Len(changes')].r = pass'.merged
              /\ frameId'
              /\ pendingFrames' = pendingFrames + (IF frameId THEN 0 ELSE 1)
         ELSE /\ changes' = changes
              /\ frameId' = frameId
              /\ pendingFrames' = pendingFrames]_vars

\* The release that ends a drag carried no delta and queued a change
\* behind a frame already requested.
C20_Witness ==
    /\ op.name = "dispatch"
    /\ pass.type = "mouseup"
    /\ ~NonzeroDelta(pass.merged)
    /\ "mousePan" \notin previousActiveHandlers
    /\ Len(changes) = 2
    /\ frameId
    /\ pendingFrames = 1

---------------------------------------------------------------------------
(* Properties of the single-pointer drag recognizers on their own          *)
(* (SpecAlone)                                                             *)

\* The mouse recognizer constructed in this behaviour, if any.
DragSubjects == DOMAIN hs \cap MouseKinds

\* The step is a call of the recognizer's method for an event of this type.
CallOf(type) == op'.name = "call" /\ op'.e.type = type

\* A press the recognizer accepts: none is tracked and the button and
\* modifier pass its filter.
AcceptedPress(n) ==
    /\ CallOf("mousedown")
    /\ hs[n].lastPoint = NoPoint
    /\ correctButton(n, op'.e)

\* C21 as stated: a drag recognizer (pan, rotate, pitch) that has accepted a
\* press and has not yet reported a qualifying movement is not active.
C21_Original ==
    \A n \in DragSubjects :
        (hs[n].lastPoint # NoPoint /\ hs[n].notMoved) => ~hs[n].active

\* C21: the rotate and pitch recognizers follow idle -> armed -> active ->
\* idle: after an accepted press and before a qualifying movement was
\* reported isActive() is false, and it becomes true only in a mousemove
\* call that returns the recognizer's delta.  The pan recognizer has no
\* armed state: isActive() is true from the accepted press on, movement or
\* not.  For all three, isActive() is false after a matching release and
\* after disable().
C21_DragStates ==
    /\ [](\A n \in DragSubjects :
            /\ n # "mousePan" =>
                  (hs[n].active => hs[n].lastPoint # NoPoint /\ ~hs[n].notMoved)
            /\ n = "mousePan" => (hs[n].active <=> hs[n].lastPoint # NoPoint))
    /\ [][\A n \in DragSubjects :
            /\ (AcceptedPress(n) /\ n # "mousePan") =>
                  /\ ~hs'[n].active
                  /\ hs'[n].lastPoint = op'.e.point
            /\ (AcceptedPress(n) /\ n = "mousePan") =>
                  /\ hs'[n].active
                  /\ hs'[n].notMoved
            /\ (~hs[n].active /\ hs'[n].active /\ n # "mousePan") =>
                  /\ CallOf("mousemove")
                  /\ pass'.dispatched = {n}
                  /\ pass'.merged.fields =
                       (IF n = "mouseRotate" THEN {"bearingDelta"}
                        ELSE {"pitchDelta"})
            /\ (~hs[n].active /\ hs'[n].active /\ n = "mousePan") =>
                  AcceptedPress(n)
            /\ (CallOf("mouseup") /\ op'.e.button = hs[n].eventButton) =>
                  (~hs'[n].active /\ hs'[n].lastPoint = NoPoint)
            /\ op'.name = "disable" =>
                  (~hs'[n].active /\ ~hs'[n].enabled)]_vars

\* The rotate recognizer, armed by a press, became active in a mousemove
\* call that returned a bearing delta.
C21_Witness ==
    /\ DragSubjects = {"mouseRotate"}
    /\ op.name = "call" /\ op.e.type = "mousemove"
    /\ ~op.wasActive
    /\ hs["mouseRotate"].active
    /\ "bearingDelta" \in pass.merged.fields

---------------------------------------------------------------------------
(* Several recognizers answering in one pass (SpecMerge): the opaque       *)
(* recognizers "A" and "B" are added with allow-lists that name each other *)
(* and the pan recognizer, so that all three may return a result for the   *)
(* same event; op.e is the event dispatched.  A frame runs before a second *)
(* change is queued.                                                       *)

MergeAllowed(name) == {"A", "B", "mousePan"} \ {name}

MergeAdd ==
    \E name \in OpaqueNames :
        LET res == add(Mgr, name, MergeAllowed(name))
        IN  /\ ~res.threw
            /\ Install(res.M)
            /\ op' = [NoOp EXCEPT !.name = "add", !.arg = name,
                                  !.enabledNew = res.enabled]
            /\ UNCHANGED counts

\* An opaque recognizer answers with nothing, a zoom step, a larger zoom
\* step, or a pan together with an animated zoom step.
MergeResponses ==
    {NoResponse,
     [active |-> FALSE, data |-> TRUE,
      r |-> [EmptyResult EXCEPT !.fields = {"zoomDelta"}, !.zoomDelta = 1]],
     [active |-> FALSE, data |-> TRUE,
      r |-> [EmptyResult EXCEPT !.fields = {"zoomDelta"}, !.zoomDelta = 2]],
     [active |-> FALSE, data |-> TRUE,
      r |-> [EmptyResult EXCEPT !.fields = {"panDelta", "zoomDelta", "duration"},
                                !.panDelta = <<2, 0>>, !.zoomDelta = 3,
                                !.duration = EaseDuration]]}

MergeEvents(oa, ob) ==
    {Event("wheel", NoPoint, NoButton, FALSE, FALSE, oa, ob),
     Event("mousedown", <<0, 0>>, LEFT_BUTTON, FALSE, FALSE,
           NoResponse, NoResponse),
     Event("mousemove", <<1, 1>>, NoButton, FALSE, FALSE, oa, ob),
     Event("mouseup", NoPoint, LEFT_BUTTON, FALSE, FALSE,
           NoResponse, NoResponse)}

MergeInput ==
    /\ \E oa \in (IF "A" \in handlersById THEN MergeResponses ELSE {NoResponse}),
          ob \in (IF "B" \in handlersById THEN MergeResponses ELSE {NoResponse}) :
          \E e \in MergeEvents(oa, ob) :
             LET M == processInputEvent([Mgr EXCEPT !.updating = TRUE], e)
             IN  /\ Len(M.changes) <= 1
                 /\ Install(M)
                 /\ op' = [NoOp EXCEPT !.name = "dispatch", !.e = e]
    /\ UNCHANGED counts

MergeFrame ==
    /\ Frame(NoResponse, NoResponse, {}, FALSE)
    /\ UNCHANGED counts

NextMerge ==
    \/ MergeAdd
    \/ MergeInput
    \/ MergeFrame

SpecMerge == Init /\ [][NextMerge]_vars

---------------------------------------------------------------------------
(* Properties of the merge of one pass (SpecMerge) *)

\* What the recognizer n returned in the pass of the step: the pass called
\* it with the fields it had before the pass.
ReturnOf(n) == Callback(n, hs[n], op'.e)

\* The recognizers that returned an object carrying field f in that pass.
Setters(f) ==
    {n \in pass'.dispatched : ReturnOf(n).data /\ f \in ReturnOf(n).r.fields}

Position(n) == CHOOSE i \in 1..Len(handlers) : handlers[i].name = n

\* The last of a non-empty set of recognizers in registration order.
LastOf(S) == CHOOSE n \in S : \A m \in S : Position(m) <= Position(n)

FieldOfAxis(a) ==
    CASE a = "zoom" -> "zoomDelta"
      [] a = "drag" -> "panDelta"
      [] a = "pitch" -> "pitchDelta"
      [] OTHER -> "bearingDelta"

\* The axis-ownership record of the pass, as queued with its change.
QueuedEip == changes'[Len(changes')].eip

\* C22 as stated: in a pass that queued its change, every recognizer that
\* returned a delta for an axis is recorded against that axis in the pass's
\* axis-ownership record.
C22_Original ==
    [][(op'.name = "dispatch" /\ pass'.pushed) =>
          \A a \in AxisSet : \A n \in Setters(FieldOfAxis(a)) :
              QueuedEip[a] = n]_vars

\* C22: within one pass, each field of the merged result is present exactly
\* when some recognizer returned it and then has the value returned by the
\* last recognizer in registration order that set it (values of the same
\* field are not summed); and the pass's axis-ownership record holds, for
\* each axis, the name of the last recognizer in registration order that
\* returned a delta for it (one name per axis: an earlier contributor to
\* the same axis is overwritten), and nothing for an axis nobody set.
C22_LastWriterWins ==
    [][op'.name = "dispatch" =>
          /\ \A f \in DeltaFields \cup {"duration"} :
                IF Setters(f) = {} THEN f \notin pass'.merged.fields
                ELSE /\ f \in pass'.merged.fields
                     /\ pass'.merged[f] = ReturnOf(LastOf(Setters(f))).r[f]
          /\ pass'.pushed =>
                \A a \in AxisSet :
                    QueuedEip[a] =
                       (IF Setters(FieldOfAxis(a)) = {} THEN NoName
                        ELSE LastOf(Setters(FieldOfAxis(a))))]_vars

\* A pass in which the pan recognizer returned a pan delta and A and B
\* returned different zoom steps, B registered last: the merged result has
\* the pan delta of the pan recognizer and the zoom step of B.
C22_Witness ==
    /\ op.name = "dispatch" /\ op.e.type = "mousemove"
    /\ {"mousePan", "A", "B"} \subseteq pass.dispatched
    /\ Before("A", "B")
    /\ op.e.opaque["A"].r.zoomDelta = 2
    /\ op.e.opaque["B"].r.zoomDelta = 1
    /\ pass.merged.zoomDelta = 1
    /\ pass.merged.panDelta = <<1, 1>>
    /\ pass.pushed
    /\ changes[Len(changes)].eip["zoom"] = "B"
    /\ changes[Len(changes)].eip["drag"] = "mousePan"

---------------------------------------------------------------------------
(* Properties of the move notifications (SpecVeto) *)

MoveTypes == {"mousemove", "touchmove"}

\* The recognizers other than the blockable one (all registered before it)
\* that are in the active set of the last pass or report themselves active
\* after it.
Engaged ==
    {n \in handlersById \ {"blockableMapEvent"} :
        \/ n \in previousActiveHandlers
        \/ (isEnabled(Kind(n), hs[n]) /\ handlerIsActive(Kind(n), hs[n]))}

\* C23: in a pass for a mousemove or touchmove event, when a recognizer
\* registered before the blockable map-event recognizer returned a result or
\* reports itself active, the blockable recognizer is reset, the event is
\* not dispatched to it and no mousemove/touchmove notification is
\* published; the notification is published only in a pass whose active
\* set is empty, and then it is.
C23_MoveOnlyWhenIdle ==
    (pass.ran /\ pass.type \in MoveTypes) =>
        IF Engaged # {}
        THEN /\ "blockableMapEvent" \in pass.resetSet
             /\ "blockableMapEvent" \notin pass.dispatched
             /\ hs["blockableMapEvent"] =
                  BlockableMapEventHandler_reset(hs["blockableMapEvent"])
             /\ ~InLog("mousemove") /\ ~InLog("touchmove")
        ELSE /\ "blockableMapEvent" \in pass.dispatched
             /\ previousActiveHandlers = {}
             /\ log = <<pass.type>>

\* A touchmove pass in which the two-touch zoom recognizer returned a zoom
\* step: the blockable recognizer was reset and nothing was published.
C23_Witness ==
    /\ pass.ran /\ pass.type = "touchmove"
    /\ "touchZoom" \in previousActiveHandlers
    /\ "zoomDelta" \in pass.merged.fields
    /\ "blockableMapEvent" \in pass.resetSet
    /\ log = <<>>

\* A mousemove pass with no recognizer engaged, whose notification was
\* published.
C23_WitnessIdle ==
    /\ pass.ran /\ pass.type = "mousemove"
    /\ Engaged = {}
    /\ log = <<"mousemove">>

---------------------------------------------------------------------------
(* Properties of the active set (Spec) *)

\* C24: after every dispatch pass, any two recognizers X and Y of the
\* pass's final active set, X registered before Y, have X on Y's
\* allow-list: no recognizer is in the active set together with an
\* earlier-registered member it does not allow.
C24_ActiveSetCompatible ==
    \A x \in previousActiveHandlers, y \in previousActiveHandlers :
        Before(x, y) => x \in AllowedOf(y)

\* A mousemove pass that left the rotate and pitch recognizers, which allow
\* each other, in the active set and reset the pan recognizer, which allows
\* neither.
C24_Witness ==
    /\ pass.ran /\ pass.type = "mousemove"
    /\ previousActiveHandlers = {"mouseRotate", "mousePitch"}
    /\ "mousePan" \in pass.resetSet
    /\ "mousePitch" \in pass.dispatched

---------------------------------------------------------------------------
(* Lifecycle notifications over a whole session (SpecLife): presses, moves *)
(* and releases of the left and the right button, frames during which a    *)
(* listener may call stop() from a notification, and stop() from the blur  *)
(* listener.  counts.open is the set of lifecycles ("move" and the axes)   *)
(* whose start was published and whose end was not yet; counts.ok is       *)
(* whether every notification so far came in its place: a start while its  *)
(* lifecycle was closed, an end, a move or an <axis> while it was open;    *)
(* counts.stopped is whether a listener has called stop().  The hand-off   *)
(* to an inertial ease ends the move lifecycle like moveend.               *)

Lifecycles == AxisSet \cup {"move"}

\* counts after the notification `type` was published.
TrackOne(c, type) ==
    IF \E a \in Lifecycles : type = a \o "start"
    THEN LET a == CHOOSE a \in Lifecycles : type = a \o "start"
         IN  [c EXCEPT !.ok = @ /\ a \notin c.open, !.open = @ \cup {a}]
    ELSE IF \E a \in Lifecycles : type = a \o "end"
    THEN LET a == CHOOSE a \in Lifecycles : type = a \o "end"
         IN  [c EXCEPT !.ok = @ /\ a \in c.open, !.open = @ \ {a}]
    ELSE IF type = "easeTo"
    THEN [c EXCEPT !.ok = @ /\ "move" \in c.open, !.open = @ \ {"move"}]
    ELSE IF type \in Lifecycles
    THEN [c EXCEPT !.ok = @ /\ type \in c.open]
    ELSE c

RECURSIVE Track(_, _, _)
Track(c, lg, i) ==
    IF i > Len(lg) THEN c ELSE Track(TrackOne(c, lg[i]), lg, i + 1)

LifeEvents ==
    {Event("mousedown", <<0, 0>>, b, FALSE, FALSE, NoResponse, NoResponse) :
        b \in Buttons}
    \cup {Event("mousemove", p, NoButton, FALSE, FALSE, NoResponse, NoResponse) :
            p \in Points}
    \cup {Event("mouseup", NoPoint, b, FALSE, FALSE, NoResponse, NoResponse) :
            b \in Buttons}

LifeInput ==
    /\ \E e \in LifeEvents : Dispatch(e)
    /\ counts' = Track(counts, log', 1)

\* Where the listener of SpecLife calls stop(): nowhere, or at one of the
\* notifications of a frame in which something moves.
LifeStops == {{}, {"movestart"}, {"move"}, {"drag"}, {"rotate"}}

LifeFrame ==
    /\ \E stopAt \in LifeStops, ease \in BOOLEAN :
          /\ Frame(NoResponse, NoResponse, stopAt, ease)
          /\ counts' = [Track(counts, log', 1) EXCEPT
                          !.stopped = @ \/ (\E t \in stopAt : InLog(t)')]

LifeStop ==
    /\ Install(stop(Mgr, {}))
    /\ op' = [NoOp EXCEPT !.name = "stop", !.guarded = updatingCamera]
    /\ counts' = Track(counts, log', 1)

NextLife ==
    \/ LifeInput
    \/ LifeFrame
    \/ LifeStop

SpecLife == Init /\ [][NextLife]_vars

---------------------------------------------------------------------------
(* Properties of the lifecycle notifications (SpecLife) *)

\* C25: over every sequence of dispatches, flushes and stop() calls,
\* movestart and moveend (or the hand-off to an inertial ease) strictly
\* alternate beginning with movestart, <axis>start and <axis>end strictly
\* alternate beginning with <axis>start for each axis, and move and <axis>
\* are published only between a start and its matching end.
C25_LifecyclesAlternate == counts.ok

\* The same, over the sessions in which no listener has called stop() from
\* a notification.
C25_AlternateUnlessListenerStops == ~counts.stopped => counts.ok

\* A frame during which a listener called stop() at the move notification
\* and which published moveend twice and drag after dragend.
C25_DoubleMoveEnd ==
    /\ op.name = "renderFrame" /\ op.stopAt = {"move"}
    /\ log = <<"movestart", "dragstart", "move", "dragend", "moveend",
               "drag", "moveend">>
    /\ ~counts.ok

---------------------------------------------------------------------------
(* A session that comes to rest (SpecLive): at most MaxLiveOps input       *)
(* events, disable() calls on a mouse recognizer and stop() calls, with    *)
(* render frames in between.  Every callback handed to                     *)
(* map._requestRenderFrame is eventually run (FrameFairness);              *)
(* nothing obliges the user to send another event.  counts.moves counts    *)
(* the operations other than frames, counts.disabled is whether disable()  *)
(* was called, counts.open the lifecycles started and not yet ended.       *)

LiveEvents ==
    {Event("mousedown", <<0, 0>>, b, FALSE, pv, NoResponse, NoResponse) :
        b \in Buttons, pv \in BOOLEAN}
    \cup {Event("mousemove", p, NoButton, FALSE, FALSE, NoResponse, NoResponse) :
            p \in Points}
    \cup {Event("mouseup", NoPoint, b, FALSE, FALSE, NoResponse, NoResponse) :
            b \in Buttons}

LiveInput ==
    /\ counts.moves < MaxLiveOps
    /\ \E e \in LiveEvents : Dispatch(e)
    /\ counts' = [Track(counts, log', 1) EXCEPT !.moves = @ + 1]

\* handler.disable(), as map.dragPan.disable() and map.dragRotate.disable()
\* call it on the recognizers they wrap.
LiveDisable ==
    /\ counts.moves < MaxLiveOps
    /\ \E n \in MouseKinds :
          /\ hs[n].enabled
          /\ hs' = [hs EXCEPT ![n] = MouseHandler_disable(@)]
          /\ op' = [NoOp EXCEPT !.name = "disable", !.arg = n]
    /\ pass' = NoPass
    /\ log' = <<>>
    /\ counts' = [counts EXCEPT !.moves = @ + 1, !.disabled = TRUE]
    /\ UNCHANGED <<handlers, handlersById, previousActiveHandlers, changes,
                   eventsInProgress, frameId, pendingFrames, updatingCamera, tr>>

LiveStop ==
    /\ counts.moves < MaxLiveOps
    /\ Install(stop(Mgr, {}))
    /\ op' = [NoOp EXCEPT !.name = "stop", !.guarded = updatingCamera]
    /\ counts' = [Track(counts, log', 1) EXCEPT !.moves = @ + 1]

LiveFrame ==
    /\ \E ease \in BOOLEAN : Frame(NoResponse, NoResponse, {}, ease)
    /\ counts' = Track(counts, log', 1)

NextLive ==
    \/ LiveInput
    \/ LiveDisable
    \/ LiveStop
    \/ LiveFrame

\* Weak fairness of LiveFrame, with ENABLED <<LiveFrame>>_vars written out:
\* the callback can run exactly while one is pending, and running it
\* changes the state (it takes the callback off pendingFrames or, when it
\* requests another, takes a name out of previousActiveHandlers).
FrameFairness ==
    \/ []<>(pendingFrames = 0)
    \/ []<><<LiveFrame>>_vars

SpecLive == Init /\ [][NextLive]_vars /\ FrameFairness

---------------------------------------------------------------------------
(* Properties of a session that comes to rest (SpecLive) *)

\* The recognizer recorded as the owner of axis a reports itself active.
OwnerActive(a) ==
    /\ eventsInProgress[a] # NoName
    /\ handlerIsActive(Kind(eventsInProgress[a]), hs[eventsInProgress[a]])

\* No lifecycle is left open by the manager: every axis whose start was
\* published and whose end was not has an owner that is still active, and
\* the move lifecycle is open only while an axis is.
Settled ==
    /\ \A a \in AxisSet : a \in counts.open => OwnerActive(a)
    /\ "move" \in counts.open => counts.open \cap AxisSet # {}

\* C26: every lifecycle that was started is ended without further input:
\* whenever an axis is left started whose owner stopped being active (by
\* release, by a blocking reset, by disable() or by stop()), or movestart
\* is left unanswered with no axis remaining, a render-frame callback is
\* pending, whose fireEvents publishes the end; without one, nothing
\* publishes it until another input event arrives.
C26_StartedIsEnded == ~Settled => pendingFrames > 0

\* The same for the sessions in which disable() is not called.
C26_EndedUnlessDisabled == counts.disabled \/ (~Settled => pendingFrames > 0)

\* In those sessions every lifecycle is in fact ended once the pending
\* callbacks have run.
C26_SettlesUnlessDisabled == <>[](counts.disabled \/ Settled)

\* A drag whose owner was disabled and that no pending frame will end.
C26_LeftOpen ==
    /\ "drag" \in counts.open /\ "move" \in counts.open
    /\ ~OwnerActive("drag")
    /\ ~hs["mousePan"].enabled
    /\ pendingFrames = 0
    /\ counts.disabled

\* C27: whenever the manager is between operations and the change queue is
\* not empty, a render-frame callback is pending (and _frameId is set); so
\* every queued change is eventually applied by a flush or discarded by
\* stop(): a non-empty queue always becomes empty again.
C27_QueueNeverStranded ==
    /\ [](changes # <<>> => (frameId /\ pendingFrames > 0))
    /\ (changes # <<>>) ~> (changes = <<>>)

\* A release queued a change without any delta behind a pending callback.
C27_Witness ==
    /\ op.name = "dispatch"
    /\ pass.pushed /\ ~hasChange(pass.merged)
    /\ Len(changes) = 1
    /\ frameId /\ pendingFrames = 1

---------------------------------------------------------------------------
(* Properties of an event without timeStamp (Spec) *)

\* C28: an input event rejected for having no timeStamp reaches no
\* recognizer, queues no change and leaves the manager's state as it was,
\* the mid-update guard included; so no stop() finds the guard set while
\* the manager is between operations, and every stop() resets the
\* recognizers and clears the pending state.
C28_RejectedEventLeavesNoTrace ==
    /\ [][(op'.name = "dispatch" /\ op'.threw) =>
            UNCHANGED <<handlers, handlersById, hs, previousActiveHandlers,
                        changes, eventsInProgress, frameId, pendingFrames,
                        updatingCamera, tr>>]_vars
    /\ [](op.name = "stop" =>
            /\ ~op.guarded
            /\ \A n \in handlersById : ~handlerIsActive(Kind(n), hs[n])
            /\ changes = <<>>)

\* The rejected event touches nothing but the guard: no recognizer, no
\* queue, no frame request, no notification.
C28_OnlyGuardChanges ==
    [][(op'.name = "dispatch" /\ op'.threw) =>
          /\ UNCHANGED <<handlers, handlersById, hs, previousActiveHandlers,
                         changes, eventsInProgress, frameId, pendingFrames, tr>>
          /\ updatingCamera'
          /\ log' = <<>>]_vars

\* A stop() after a rejected event that did nothing: the pan recognizer is
\* still active and the queue still holds its change.
C28_StopSwallowed ==
    /\ op.name = "stop" /\ op.guarded
    /\ hs["mousePan"].active
    /\ changes # <<>>
    /\ updatingCamera

=========================================================================
